---- MODULE Spec2Model ----
(***************************************************************************)
(* A model of mcbuild's voxel core: the primitive rasterizers of           *)
(* src/src/util.py, the bounding-box bookkeeping of the generators, the    *)
(* composer of src/src/main_planner.py (execute_final_plan) and the RCON   *)
(* executor of src/src/rcon_client.py (execute_build).                     *)
(*                                                                         *)
(* A block is a record [x, y, z, block_type]; a block sequence is a TLA+   *)
(* sequence of blocks in the order the code appends them.  A task's args   *)
(* mapping (Python kwargs) is a function from key names to values, and     *)
(* kwargs.get(k, d) is Get(kw, k, d).                                      *)
(***************************************************************************)
EXTENDS Integers, Sequences, FiniteSets, TLC

VARIABLES
    \* --- one call of generate_blocks_from_task (SpecRaster) ---
    task,                   \* the task handed to generate_blocks_from_task
    blocks,                 \* the list it returned
    rpc,                    \* "ready" | "done"
    \* --- BuildingGenerator.generate (SpecGen) ---
    llm_output,             \* the list the LLM returned (items may be invalid)
    generated_components,   \* the validated items
    actual_block_commands,  \* the blocks rasterized so far
    spatial_metadata,       \* bounding box and dimensions, or NoMeta
    gpc,                    \* "idle" | "done"
    \* --- execute_final_plan and RconClient.execute_build (SpecCompose) ---
    final_plan_file,        \* final_build_plan.json
    build_dir,              \* build/<file_name> -> the component file
    base,                   \* base_x, base_y, base_z (in half blocks)
    final_block_list,       \* the composed list handed to execute_build
    epc,                    \* where the planner is in the build
    bi,                     \* blocks of final_block_list already placed
    world,                  \* the server's blocks: {<<coordinate, type>>}
    sent,                   \* the RCON commands sent, in order
    \* --- two evaluations running interleaved (SpecEval) ---
    ejobs,                  \* evaluation -> the task or build plan it was given
    frames,                 \* evaluation -> its call frame [pc, n, blocks]
    \* --- mc_listener and main_loop on command_queue.json (SpecPlanner) ---
    queue_file,             \* command_queue.json: the list of requests
    lpc,                    \* the listener: "follow" | "dump"
    listener_requests,      \* the listener's `requests` (loaded, appended)
    arrived,                \* !build messages the listener has queued
    ppc,                    \* where main_loop is in its iteration
    requests,               \* main_loop's `requests` after pop(0)
    request_data,           \* the request main_loop is working on
    current_requests,       \* main_loop's `current_requests` (re-queue)
    route_decision,         \* the router's answer of this iteration
    build_exists,           \* build/ exists
    component_files,        \* build/*.json: the requests they were made for
    plan_file,              \* final_build_plan.json and who it was made for
    trail,                  \* the steps this iteration has completed
    status,                 \* request -> "new" | "queued" | "taken" | "finished"
    taken,                  \* requests in the order main_loop first took them
    duplicated,             \* a request was taken again without a re-queue
    requeued,               \* the request re-inserted and not yet taken again
    builds,                 \* the calls of execute_final_plan that read a plan
    \* --- one call of get_llm_response (SpecLlm) ---
    expect_json,            \* the expect_json argument
    attempt,                \* the loop variable of `for attempt in range(...)`
    api_log,                \* how each API call of this call ended
    llm_pc,                 \* "loop" | "returned"
    llm_result,             \* the (success, payload) pair returned
    \* --- sequential calls of get_next_api_key (SpecKeys) ---
    api_keys,               \* config/api_keys_list.json
    key_state,              \* config/key_state.json
    returned_keys,          \* the keys returned so far, in call order
    key_errors              \* calls that raised ValueError

rasterVars == <<task, blocks, rpc>>
genVars == <<llm_output, generated_components, actual_block_commands,
             spatial_metadata, gpc>>
evalVars == <<ejobs, frames>>
composeVars == <<final_plan_file, build_dir, base, final_block_list, epc,
                 bi, world, sent>>
plannerVars == <<queue_file, lpc, listener_requests, arrived, ppc, requests,
                 request_data, current_requests, route_decision,
                 build_exists, component_files, plan_file, trail, status,
                 taken, duplicated, requeued, builds>>
llmVars == <<expect_json, attempt, api_log, llm_pc, llm_result>>
keyVars == <<api_keys, key_state, returned_keys, key_errors>>
serviceVars == <<plannerVars, llmVars, keyVars>>
vars == <<task, blocks, rpc, llm_output, generated_components,
          actual_block_commands, spatial_metadata, gpc,
          final_plan_file, build_dir, base, final_block_list, epc, bi, world,
          sent, ejobs, frames, queue_file, lpc, listener_requests, arrived,
          ppc, requests, request_data, current_requests, route_decision,
          build_exists, component_files, plan_file, trail, status, taken,
          duplicated, requeued, builds, expect_json, attempt, api_log,
          llm_pc, llm_result, api_keys, key_state, returned_keys, key_errors>>

(***************************************************************************)
(* Bounds of the model.                                                    *)
(***************************************************************************)
MaxSize == 4        \* cube sizes, cylinder height, arch width: -1..MaxSize
MaxRadius == 2      \* sphere, circle, cylinder, arch radius: -1..MaxRadius
MaxBase == 5        \* pyramid base_size: -1..MaxBase
MaxComponents == 2  \* items in one LLM answer of a generator
MaxPlan == 2        \* entries of final_build_plan.json
MaxRequests == 2    \* !build messages the listener sees
MaxKeys == 4        \* entries of api_keys_list.json
MaxBuild == 201     \* blocks of the longest list handed to execute_build

Coord == {-1, 2}            \* block positions tried on each axis
LineCoord == {-1, 0, 2}     \* line endpoints tried on each axis
BlockTypes == {"stone", "oak_planks"}
Sizes == -1..MaxSize
Radii == -1..MaxRadius
Bases == -1..MaxBase

(***************************************************************************)
(* Python helpers.                                                         *)
(***************************************************************************)
\* kw.get(k, d)
Get(kw, k, d) == IF k \in DOMAIN kw THEN kw[k] ELSE d

Abs(n) == IF n < 0 THEN -n ELSE n

Max2(a, b) == IF a >= b THEN a ELSE b

\* range(a, b): a, a+1, ..., b-1 (empty when b <= a)
range(a, b) == [t \in 1..(b - a) |-> a + t - 1]

\* for a in A: for b in B: for c in C  -- the triples in loop order
Nest3(A, B, C) ==
    [t \in 1..(Len(A) * Len(B) * Len(C)) |->
        <<A[((t - 1) \div (Len(B) * Len(C))) + 1],
          B[(((t - 1) \div Len(C)) % Len(B)) + 1],
          C[((t - 1) % Len(C)) + 1]>>]

\* for a in A: for b in B
Nest2(A, B) ==
    [t \in 1..(Len(A) * Len(B)) |->
        <<A[((t - 1) \div Len(B)) + 1], B[((t - 1) % Len(B)) + 1]>>]

Block(bx, by, bz, bt) == [x |-> bx, y |-> by, z |-> bz, block_type |-> bt]

Coords(bs) == {<<bs[n].x, bs[n].y, bs[n].z>> : n \in DOMAIN bs}

\* Python 3 round() of the rational num/den (den > 0): nearest, ties to even
round(num, den) ==
    LET q == num \div den        \* floor
        r == num % den           \* 0 <= r < den
    IN  IF 2 * r < den THEN q
        ELSE IF 2 * r > den THEN q + 1
        ELSE IF q % 2 = 0 THEN q ELSE q + 1

(***************************************************************************)
(* The rasterizers (src/src/util.py).  Each is its loop nest (X_iter: the  *)
(* index tuples in loop order), the condition guarding the append (X_keep) *)
(* and the block appended (X_block); generate_X runs the loop: blocks = [], *)
(* for c in X_iter: if X_keep(c): blocks.append(X_block(c)).               *)
(***************************************************************************)
cube_WrongShell(i, j, k, size_x, size_y, size_z) ==
    i = 0 \/ i = size_x \/ j = 0 \/ j = size_y \/ k = 0 \/ k = size_z

cube_ShellOneBased(i, j, k, size_x, size_y, size_z) ==
    i = 1 \/ i = size_x \/ j = 1 \/ j = size_y \/ k = 1 \/ k = size_z

is_shell(i, j, k, size_x, size_y, size_z) ==
    \/ i = 0 \/ i = size_x - 1
    \/ j = 0 \/ j = size_y - 1
    \/ k = 0 \/ k = size_z - 1

cube_WrongLoops(size_x, size_y, size_z) ==
    Nest3(range(0, size_x), range(0, size_y), range(1, size_z))

cube_loops(size_x, size_y, size_z) ==
    Nest3(range(0, size_x), range(0, size_y), range(0, size_z))

cube_iter_DefaultZero(kwargs) ==
    cube_loops(Get(kwargs, "size_x", 0), Get(kwargs, "size_y", 0),
               Get(kwargs, "size_z", 0))

cube_iter(kwargs) ==
    cube_loops(Get(kwargs, "size_x", 1), Get(kwargs, "size_y", 1),
               Get(kwargs, "size_z", 1))

cube_keep(hollow, kwargs, c) ==
    ~hollow \/ is_shell(c[1], c[2], c[3], Get(kwargs, "size_x", 1),
                        Get(kwargs, "size_y", 1), Get(kwargs, "size_z", 1))

cube_block(kwargs, c) ==
    Block(Get(kwargs, "x", 0) + c[1], Get(kwargs, "y", 0) + c[2],
          Get(kwargs, "z", 0) + c[3], Get(kwargs, "block_type", "stone"))

generate_cube(hollow, kwargs) ==
    LET keep(c) == cube_keep(hollow, kwargs, c)
        block(c) == cube_block(kwargs, c)
    IN  LET kept == SelectSeq(cube_iter(kwargs), keep)
        IN  [n \in 1..Len(kept) |-> block(kept[n])]

line_steps_Sum(kwargs) ==
    LET dx == Get(kwargs, "x2", 0) - Get(kwargs, "x1", 0)
        dy == Get(kwargs, "y2", 0) - Get(kwargs, "y1", 0)
        dz == Get(kwargs, "z2", 0) - Get(kwargs, "z1", 0)
    IN  Abs(dx) + Abs(dy) + Abs(dz)

line_steps(kwargs) ==
    LET dx == Get(kwargs, "x2", 0) - Get(kwargs, "x1", 0)
        dy == Get(kwargs, "y2", 0) - Get(kwargs, "y1", 0)
        dz == Get(kwargs, "z2", 0) - Get(kwargs, "z1", 0)
    IN  Max2(Abs(dx), Max2(Abs(dy), Abs(dz)))

line_iter_NoEnd(kwargs) ==
    IF line_steps(kwargs) = 0 THEN range(0, 1)
    ELSE range(0, line_steps(kwargs))

\* `for _ in range(int(steps) + 1)`; with steps = 0 the start block alone
line_iter(kwargs) ==
    IF line_steps(kwargs) = 0 THEN range(0, 1)
    ELSE range(0, line_steps(kwargs) + 1)

\* the n-th sample, start + n * (d / steps), is kept as a fraction over
\* steps and rounded as Python rounds (the float sums of the code agree
\* with the exact fractions for steps <= 5)
line_block(kwargs, n) ==
    LET x1 == Get(kwargs, "x1", 0)
        y1 == Get(kwargs, "y1", 0)
        z1 == Get(kwargs, "z1", 0)
        x2 == Get(kwargs, "x2", 0)
        y2 == Get(kwargs, "y2", 0)
        z2 == Get(kwargs, "z2", 0)
        block_type == Get(kwargs, "block_type", "stone")
        steps == line_steps(kwargs)
    IN  IF steps = 0 THEN Block(x1, y1, z1, block_type)
        ELSE Block(round(x1 * steps + n * (x2 - x1), steps),
                   round(y1 * steps + n * (y2 - y1), steps),
                   round(z1 * steps + n * (z2 - z1), steps),
                   block_type)

generate_line(kwargs) ==
    LET keep(n) == TRUE
        block(n) == line_block(kwargs, n)
    IN  LET kept == SelectSeq(line_iter(kwargs), keep)
        IN  [n \in 1..Len(kept) |-> block(kept[n])]

in_ball_InclusiveInner(hollow, dist_sq, radius) ==
    LET r_sq == radius * radius
        inner_r_sq == (radius - 1) * (radius - 1)
    IN  dist_sq <= r_sq /\ (~hollow \/ dist_sq >= inner_r_sq)

\* the radius test shared by sphere, cylinder and circle
in_ball(hollow, dist_sq, radius) ==
    LET r_sq == radius * radius
        inner_r_sq == (radius - 1) * (radius - 1)
    IN  dist_sq <= r_sq /\ (~hollow \/ dist_sq > inner_r_sq)

sphere_WrongDist(i, j, k) == i * i + j * j + 2 * k * k

sphere_dist_sq(i, j, k) == i * i + j * j + k * k

sphere_iter_Exclusive(kwargs) ==
    LET radius == Get(kwargs, "radius", 5)
        r == range(-radius, radius)
    IN  Nest3(r, r, r)

sphere_iter(kwargs) ==
    LET radius == Get(kwargs, "radius", 5)
        r == range(-radius, radius + 1)
    IN  Nest3(r, r, r)

sphere_keep(hollow, kwargs, c) ==
    in_ball(hollow, sphere_dist_sq(c[1], c[2], c[3]), Get(kwargs, "radius", 5))

sphere_block(kwargs, c) ==
    Block(Get(kwargs, "x", 0) + c[1], Get(kwargs, "y", 0) + c[2],
          Get(kwargs, "z", 0) + c[3], Get(kwargs, "block_type", "stone"))

generate_sphere(hollow, kwargs) ==
    LET keep(c) == sphere_keep(hollow, kwargs, c)
        block(c) == sphere_block(kwargs, c)
    IN  LET kept == SelectSeq(sphere_iter(kwargs), keep)
        IN  [n \in 1..Len(kept) |-> block(kept[n])]

\* loop order: j (layer), then i, then k
cylinder_iter(kwargs) ==
    LET radius == Get(kwargs, "radius", 5)
        r == range(-radius, radius + 1)
    IN  Nest3(range(0, Get(kwargs, "height", 10)), r, r)

cylinder_keep_Sphere(hollow, kwargs, c) ==
    in_ball(hollow, c[1] * c[1] + c[2] * c[2] + c[3] * c[3],
            Get(kwargs, "radius", 5))

cylinder_keep(hollow, kwargs, c) ==
    in_ball(hollow, c[2] * c[2] + c[3] * c[3], Get(kwargs, "radius", 5))

cylinder_block_Swapped(kwargs, c) ==
    Block(Get(kwargs, "x", 0) + c[1], Get(kwargs, "y", 0) + c[2],
          Get(kwargs, "z", 0) + c[3], Get(kwargs, "block_type", "stone"))

cylinder_block(kwargs, c) ==
    Block(Get(kwargs, "x", 0) + c[2], Get(kwargs, "y", 0) + c[1],
          Get(kwargs, "z", 0) + c[3], Get(kwargs, "block_type", "stone"))

generate_cylinder(hollow, kwargs) ==
    LET keep(c) == cylinder_keep(hollow, kwargs, c)
        block(c) == cylinder_block(kwargs, c)
    IN  LET kept == SelectSeq(cylinder_iter(kwargs), keep)
        IN  [n \in 1..Len(kept) |-> block(kept[n])]

py_WrongHeight(base_size) == base_size \div 2

py_height(base_size) == (base_size + 1) \div 2

py_layer_size_Shrink1(base_size, j) == base_size - j

py_layer_size(base_size, j) == base_size - 2 * j

RECURSIVE py_layers(_, _, _)
\* `for j in range(height)` from layer j on, with its break; each layer is
\* `for i in range(layer_size): for k in range(layer_size)`
py_layers(base_size, height, j) ==
    IF j >= height THEN <<>>
    ELSE IF py_layer_size(base_size, j) <= 0 THEN <<>>
    ELSE Nest3(range(j, j + 1), range(0, py_layer_size(base_size, j)),
               range(0, py_layer_size(base_size, j)))
            \o py_layers(base_size, height, j + 1)

pyramid_iter(kwargs) ==
    py_layers(Get(kwargs, "base_size", 10),
              py_height(Get(kwargs, "base_size", 10)), 0)

\* c = <<j, i, k>>; offset = j
pyramid_block(kwargs, c) ==
    Block(Get(kwargs, "x", 0) + c[2] + c[1], Get(kwargs, "y", 0) + c[1],
          Get(kwargs, "z", 0) + c[3] + c[1],
          Get(kwargs, "block_type", "sandstone"))

generate_pyramid(kwargs) ==
    LET keep(c) == TRUE
        block(c) == pyramid_block(kwargs, c)
    IN  LET kept == SelectSeq(pyramid_iter(kwargs), keep)
        IN  [n \in 1..Len(kept) |-> block(kept[n])]

circle_iter(kwargs) ==
    LET radius == Get(kwargs, "radius", 5)
        r == range(-radius, radius + 1)
    IN  Nest2(r, r)

circle_keep(hollow, kwargs, c) ==
    in_ball(hollow, c[1] * c[1] + c[2] * c[2], Get(kwargs, "radius", 5))

circle_block(kwargs, c) ==
    Block(Get(kwargs, "x", 0) + c[1], Get(kwargs, "y", 0),
          Get(kwargs, "z", 0) + c[2], Get(kwargs, "block_type", "stone"))

generate_circle(hollow, kwargs) ==
    LET keep(c) == circle_keep(hollow, kwargs, c)
        block(c) == circle_block(kwargs, c)
    IN  LET kept == SelectSeq(circle_iter(kwargs), keep)
        IN  [n \in 1..Len(kept) |-> block(kept[n])]

\* loop order: k (slice), then i, then j
arch_iter(kwargs) ==
    LET radius == Get(kwargs, "radius", 5)
    IN  Nest3(range(0, Get(kwargs, "width", 3)), range(-radius, radius + 1),
              range(0, radius + 1))

arch_keep_Inclusive(kwargs, c) ==
    LET radius == Get(kwargs, "radius", 5)
    IN  Abs(c[2] * c[2] + c[3] * c[3] - radius * radius) <= radius

arch_keep(kwargs, c) ==
    LET radius == Get(kwargs, "radius", 5)
    IN  Abs(c[2] * c[2] + c[3] * c[3] - radius * radius) < radius

arch_block(kwargs, c) ==
    Block(Get(kwargs, "x", 0) + c[2], Get(kwargs, "y", 0) + c[3],
          Get(kwargs, "z", 0) + c[1], Get(kwargs, "block_type", "stone_bricks"))

generate_arch(kwargs) ==
    LET keep(c) == arch_keep(kwargs, c)
        block(c) == arch_block(kwargs, c)
    IN  LET kept == SelectSeq(arch_iter(kwargs), keep)
        IN  [n \in 1..Len(kept) |-> block(kept[n])]

\* kwargs without key k (the key was bound to a named parameter)
Without(kw, k) == [q \in DOMAIN kw \ {k} |-> kw[q]]

\* kwargs with key k pre-bound by an alias's lambda
With(kw, k, v) == [q \in DOMAIN kw \cup {k} |-> IF q = k THEN v ELSE kw[q]]

ToolNames == {"cube", "line", "sphere", "hollow_cube", "hollow_sphere",
              "cylinder", "pyramid", "circle", "arch", "single_block"}

\* the rasterizer a tool_map entry names, with the parameters it binds:
\* `hollow` is a named parameter of cube, sphere, cylinder and circle, and
\* the lambdas of the aliases pre-bind hollow or the sizes
resolve(tool_name, args) ==
    CASE tool_name \in {"cube", "sphere", "cylinder", "circle"} ->
            [shape |-> tool_name, hollow |-> Get(args, "hollow", FALSE),
             kwargs |-> Without(args, "hollow")]
      [] tool_name \in {"line", "pyramid", "arch"} ->
            [shape |-> tool_name, hollow |-> FALSE, kwargs |-> args]
      [] tool_name = "hollow_cube" ->
            [shape |-> "cube", hollow |-> TRUE, kwargs |-> args]
      [] tool_name = "hollow_sphere" ->
            [shape |-> "sphere", hollow |-> TRUE, kwargs |-> args]
      [] tool_name = "single_block" ->
            [shape |-> "cube", hollow |-> FALSE,
             kwargs |-> With(With(With(args, "size_x", 1), "size_y", 1),
                             "size_z", 1)]

\* tool_map[tool_name](**args)
tool_map(tool_name, args) ==
    LET r == resolve(tool_name, args)
    IN  CASE r.shape = "cube" -> generate_cube(r.hollow, r.kwargs)
          [] r.shape = "line" -> generate_line(r.kwargs)
          [] r.shape = "sphere" -> generate_sphere(r.hollow, r.kwargs)
          [] r.shape = "cylinder" -> generate_cylinder(r.hollow, r.kwargs)
          [] r.shape = "pyramid" -> generate_pyramid(r.kwargs)
          [] r.shape = "circle" -> generate_circle(r.hollow, r.kwargs)
          [] r.shape = "arch" -> generate_arch(r.kwargs)

\* the loop nest, the append condition and the appended block of the
\* rasterizer r names, for an evaluation that runs it one iteration at a time
shape_iter(r) ==
    CASE r.shape = "cube" -> cube_iter(r.kwargs)
      [] r.shape = "line" -> line_iter(r.kwargs)
      [] r.shape = "sphere" -> sphere_iter(r.kwargs)
      [] r.shape = "cylinder" -> cylinder_iter(r.kwargs)
      [] r.shape = "pyramid" -> pyramid_iter(r.kwargs)
      [] r.shape = "circle" -> circle_iter(r.kwargs)
      [] r.shape = "arch" -> arch_iter(r.kwargs)

shape_keep(r, c) ==
    CASE r.shape = "cube" -> cube_keep(r.hollow, r.kwargs, c)
      [] r.shape = "line" -> TRUE
      [] r.shape = "sphere" -> sphere_keep(r.hollow, r.kwargs, c)
      [] r.shape = "cylinder" -> cylinder_keep(r.hollow, r.kwargs, c)
      [] r.shape = "pyramid" -> TRUE
      [] r.shape = "circle" -> circle_keep(r.hollow, r.kwargs, c)
      [] r.shape = "arch" -> arch_keep(r.kwargs, c)

shape_block(r, c) ==
    CASE r.shape = "cube" -> cube_block(r.kwargs, c)
      [] r.shape = "line" -> line_block(r.kwargs, c)
      [] r.shape = "sphere" -> sphere_block(r.kwargs, c)
      [] r.shape = "cylinder" -> cylinder_block(r.kwargs, c)
      [] r.shape = "pyramid" -> pyramid_block(r.kwargs, c)
      [] r.shape = "circle" -> circle_block(r.kwargs, c)
      [] r.shape = "arch" -> arch_block(r.kwargs, c)

\* task.get('tool') of a task without the key
None == "None"

\* a value that is not a dict (a string, a number, a list)
NotADict == [not_a_dict |-> TRUE]

isinstance_dict(v) == "not_a_dict" \notin DOMAIN v

\* task.get('args', {}) of a task without the key
EmptyArgs == [q \in {} |-> 0]

\* a task is a mapping that may hold the keys "tool" and "args"
generate_blocks_from_task(tsk) ==
    IF ~isinstance_dict(tsk) THEN <<>>
    ELSE LET tool_name == Get(tsk, "tool", None)
         IN  IF tool_name \in ToolNames
             THEN tool_map(tool_name, Get(tsk, "args", EmptyArgs))
             ELSE <<>>

\* the parameters an alias's lambda binds itself before passing **kwargs on
prebound(tool_name) ==
    CASE tool_name \in {"hollow_cube", "hollow_sphere"} -> {"hollow"}
      [] tool_name = "single_block" -> {"size_x", "size_y", "size_z"}
      [] OTHER -> {}

\* the call `tool_map[tool_name](**task.get('args', {}))` raises TypeError:
\* `**` of a value that is not a mapping, or a key of args that the alias's
\* lambda has bound already ("got multiple values for keyword argument")
raises_TypeError(tsk) ==
    /\ isinstance_dict(tsk)
    /\ Get(tsk, "tool", None) \in ToolNames
    /\ LET args == Get(tsk, "args", EmptyArgs)
       IN  \/ ~isinstance_dict(args)
           \/ prebound(Get(tsk, "tool", None)) \cap DOMAIN args # {}

(***************************************************************************)
(* The bounding box of the generators (building_generator.py 97-124,       *)
(* long_wall_generator.py 125-139).  The loop starts min_x at float('inf') *)
(* and folds min(min_x, block['x']) over every block, which leaves the     *)
(* least x of the list (and likewise for the other five extremes); the     *)
(* fold is written as that least element, since a recursion as deep as    *)
(* the block list overflows TLC's evaluation stack.                        *)
(***************************************************************************)
Axis(b, axis) == CASE axis = "x" -> b.x [] axis = "y" -> b.y [] axis = "z" -> b.z

fold_WrongMin(bs, axis) ==
    CHOOSE m \in {Axis(bs[n], axis) : n \in 2..Len(bs)} \cup {Axis(bs[Len(bs)], axis)} :
        \A n \in 2..Len(bs) : m <= Axis(bs[n], axis)

\* min_x = min(min_x, block['x']) over all blocks (bs non-empty)
fold_min(bs, axis) ==
    CHOOSE m \in {Axis(bs[n], axis) : n \in DOMAIN bs} :
        \A n \in DOMAIN bs : m <= Axis(bs[n], axis)

\* max_x = max(max_x, block['x']) over all blocks (bs non-empty)
fold_max(bs, axis) ==
    CHOOSE m \in {Axis(bs[n], axis) : n \in DOMAIN bs} :
        \A n \in DOMAIN bs : m >= Axis(bs[n], axis)

extent_Wrong(lo, hi) == hi - lo

\* width = max_x - min_x + 1, and likewise height and depth
extent(lo, hi) == hi - lo + 1

compute_spatial_metadata(bs) ==
    IF bs # <<>>
    THEN LET min_x == fold_min(bs, "x")
             min_y == fold_min(bs, "y")
             min_z == fold_min(bs, "z")
             max_x == fold_max(bs, "x")
             max_y == fold_max(bs, "y")
             max_z == fold_max(bs, "z")
         IN  [bounding_box |->
                 [min_x |-> min_x, min_y |-> min_y, min_z |-> min_z,
                  max_x |-> max_x, max_y |-> max_y, max_z |-> max_z],
              dimensions |->
                 [width |-> extent(min_x, max_x),
                  height |-> extent(min_y, max_y),
                  depth |-> extent(min_z, max_z)]]
    ELSE [bounding_box |->
             [min_x |-> 0, min_y |-> 0, min_z |-> 0,
              max_x |-> 0, max_y |-> 0, max_z |-> 0],
          dimensions |-> [width |-> 0, height |-> 0, depth |-> 0]]

\* "generated_structure": {} -- a plan without spatial_metadata
NoMeta == [none |-> TRUE]

RECURSIVE extend_all(_, _)
\* blocks of tasks n.. of the list, concatenated in list order
extend_all(tasks, n) ==
    IF n > Len(tasks) THEN <<>>
    ELSE generate_blocks_from_task(tasks[n]) \o extend_all(tasks, n + 1)

\* isinstance(item, dict) and 'tool' in item and 'args' in item
valid_item(item) ==
    isinstance_dict(item) /\ "tool" \in DOMAIN item /\ "args" \in DOMAIN item

(***************************************************************************)
(* The composer (main_planner.py, execute_final_plan) and the executor     *)
(* (rcon_client.py, execute_build).                                        *)
(*                                                                         *)
(* A JSON file is [kind, data]: kind "missing" is what read_json_file      *)
(* answers None for (no file, or no JSON in it).  The player position is   *)
(* three floats; the model keeps them in half blocks, so <<-5, 129, 7>> is *)
(* (-2.5, 64.5, 3.5).                                                      *)
(***************************************************************************)
Files == {"a.json", "b.json"}

NoFile == [kind |-> "missing", data |-> <<>>]

\* read_json_file(path) is None
is_None(file) == file.kind = "missing"

\* `not final_plan`: None or the empty list
not_plan(file) == is_None(file) \/ file.data = <<>>

\* `not component_data`: None or the empty dict
not_component(file) == is_None(file) \/ file.kind = "empty_dict"

\* component_data.get('blocks', [])
get_blocks(file) == IF file.kind = "with_blocks" THEN file.data ELSE <<>>

ZeroOffset == [x |-> 0, y |-> 0, z |-> 0]

\* int() of a float given in half blocks: truncation toward zero
int_WrongFloor(h) == h \div 2

int(h) == IF h >= 0 THEN h \div 2 ELSE -((-h) \div 2)

translate_NoOffset(world_base, offset, block) ==
    Block(int(world_base[1] + 2 * (Get(offset, "x", 0) + block.x)),
          int(world_base[2] + 2 * block.y),
          int(world_base[3] + 2 * (Get(offset, "z", 0) + block.z)),
          block.block_type)

\* the dict appended for one block of a component (lines 151-156)
translate(world_base, offset, block) ==
    Block(int(world_base[1] + 2 * (Get(offset, "x", 0) + block.x)),
          int(world_base[2] + 2 * (Get(offset, "y", 0) + block.y)),
          int(world_base[3] + 2 * (Get(offset, "z", 0) + block.z)),
          block.block_type)

\* the blocks one component_plan adds to final_block_list (lines 143-156)
component_blocks(component_plan, dir, world_base) ==
    LET component_data == dir[component_plan.file_name]
        offset == Get(component_plan, "offset", ZeroOffset)
        bs == get_blocks(component_data)
    IN  IF not_component(component_data) THEN <<>>
        ELSE [n \in 1..Len(bs) |-> translate(world_base, offset, bs[n])]

RECURSIVE compose_StopAtMissing(_, _, _, _)
compose_StopAtMissing(final_plan, n, dir, world_base) ==
    IF n > Len(final_plan) THEN <<>>
    ELSE IF not_component(dir[final_plan[n].file_name]) THEN <<>>
    ELSE component_blocks(final_plan[n], dir, world_base)
            \o compose_StopAtMissing(final_plan, n + 1, dir, world_base)

RECURSIVE compose(_, _, _, _)
\* `for component_plan in final_plan` from entry n on
compose(final_plan, n, dir, world_base) ==
    IF n > Len(final_plan) THEN <<>>
    ELSE component_blocks(final_plan[n], dir, world_base)
            \o compose(final_plan, n + 1, dir, world_base)

RECURSIVE compose_iter(_, _, _)
\* the iterations of the two loops of the composer from plan entry n on:
\* <<n, q>> is block q of the component of entry n
compose_iter(final_plan, n, dir) ==
    IF n > Len(final_plan) THEN <<>>
    ELSE LET component_data == dir[final_plan[n].file_name]
             bs == get_blocks(component_data)
         IN  (IF not_component(component_data) THEN <<>>
              ELSE [q \in 1..Len(bs) |-> <<n, q>>])
             \o compose_iter(final_plan, n + 1, dir)

\* the dict appended in iteration c = <<n, q>>
compose_block(final_plan, dir, world_base, c) ==
    translate(world_base, Get(final_plan[c[1]], "offset", ZeroOffset),
              get_blocks(dir[final_plan[c[1]].file_name])[c[2]])

ProgressEvery_Half == 100 \div 2

\* every how many setblock commands execute_build announces its progress
ProgressEvery == 100

next_block_Reversed(block_list, i) == block_list[Len(block_list) - i]

\* `for i, block in enumerate(block_list)`: the block of iteration i
next_block(block_list, i) == block_list[i + 1]

\* what the server does with `setblock x y z block_type`
setblock(w, block) ==
    LET c == <<block.x, block.y, block.z>>
    IN  {p \in w : p[1] # c} \cup {<<c, block.block_type>>}

(***************************************************************************)
(* Inputs.                                                                 *)
(***************************************************************************)
Task(tool, args) == [tool |-> tool, args |-> args]

CubeArgs == [x : Coord, y : Coord, z : Coord,
             size_x : Sizes, size_y : Sizes, size_z : Sizes,
             block_type : BlockTypes]
CubeArgsH == [x : Coord, y : Coord, z : Coord,
              size_x : Sizes, size_y : Sizes, size_z : Sizes,
              block_type : BlockTypes, hollow : BOOLEAN]
BallArgs == [x : Coord, y : Coord, z : Coord, radius : Radii,
             block_type : BlockTypes]
BallArgsH == [x : Coord, y : Coord, z : Coord, radius : Radii,
              block_type : BlockTypes, hollow : BOOLEAN]
CylArgs == [x : Coord, y : Coord, z : Coord, radius : Radii, height : Sizes,
            block_type : BlockTypes, hollow : BOOLEAN]
PyrArgs == [x : Coord, y : Coord, z : Coord, base_size : Bases,
            block_type : BlockTypes]
ArchArgs == [x : Coord, y : Coord, z : Coord, radius : Radii, width : Sizes,
             block_type : BlockTypes]
PointArgs == [x : Coord, y : Coord, z : Coord, block_type : BlockTypes]
LineArgs == [x1 : LineCoord, y1 : LineCoord, z1 : LineCoord,
             x2 : LineCoord, y2 : LineCoord, z2 : LineCoord,
             block_type : BlockTypes]

\* args of an alias that name the parameter the alias stands for
AliasTasks ==
    {Task("hollow_cube", With(a, "hollow", h)) : a \in PointArgs, h \in BOOLEAN}
    \cup {Task("hollow_sphere", With(With(a, "radius", 1), "hollow", h)) :
            a \in PointArgs, h \in BOOLEAN}
    \cup {Task("single_block", With(a, "size_x", n)) :
            a \in PointArgs, n \in {1, 2}}

\* tasks without tool, without args, with an unknown tool, or with args that
\* is not a mapping (null, a list, a string)
MalformedTasks ==
    {[tool |-> t] : t \in ToolNames \cup {"torus"}}
    \cup {[args |-> a] : a \in PointArgs}
    \cup {Task("torus", a) : a \in PointArgs}
    \cup {Task(t, NotADict) : t \in ToolNames \cup {"torus"}}
    \cup {EmptyArgs}

\* args that give only some of the parameters of the tool: every subset of
\* a full args mapping whose values all differ from the defaults
Restrict(kw, S) == [q \in S |-> kw[q]]

FullArgs(tool_name) ==
    CASE tool_name \in {"cube", "hollow_cube"} ->
            {[x |-> 2, y |-> -1, z |-> 2, size_x |-> 2, size_y |-> 3,
              size_z |-> 2, block_type |-> "oak_planks"]}
      [] tool_name = "single_block" ->
            {[x |-> 2, y |-> -1, z |-> 2, block_type |-> "oak_planks"]}
      [] tool_name \in {"sphere", "hollow_sphere", "circle"} ->
            {[x |-> 2, y |-> -1, z |-> 2, radius |-> 2,
              block_type |-> "oak_planks"]}
      [] tool_name = "cylinder" ->
            {[x |-> 2, y |-> -1, z |-> 2, radius |-> 2, height |-> 2,
              block_type |-> "oak_planks"]}
      [] tool_name = "pyramid" ->
            {[x |-> 2, y |-> -1, z |-> 2, base_size |-> 3,
              block_type |-> "oak_planks"]}
      [] tool_name = "arch" ->
            {[x |-> 2, y |-> -1, z |-> 2, radius |-> 2, width |-> 2,
              block_type |-> "oak_planks"]}
      [] tool_name = "line" ->
            {[x1 |-> 2, y1 |-> -1, z1 |-> 2, x2 |-> -1, y2 |-> 1, z2 |-> 3,
              block_type |-> "oak_planks"]}

PartialOf(t) ==
    UNION {{Task(t, Restrict(a, S)) : S \in SUBSET DOMAIN a} : a \in FullArgs(t)}

PartialHollowOf(t) ==
    UNION {{Task(t, With(Restrict(a, S), "hollow", h)) :
                S \in SUBSET DOMAIN a, h \in BOOLEAN} : a \in FullArgs(t)}

PartialTasks ==
    UNION {PartialOf(t) : t \in ToolNames}
    \cup UNION {PartialHollowOf(t) : t \in {"cube", "sphere", "cylinder", "circle"}}

\* lines along one axis and along a diagonal, longer than LineCoord gives
LineExamples ==
    {Task("line", [x1 |-> 0, y1 |-> 0, z1 |-> 0, x2 |-> 4, y2 |-> 0,
                   z2 |-> 0, block_type |-> "stone"]),
     Task("line", [x1 |-> 1, y1 |-> -2, z1 |-> 3, x2 |-> -4, y2 |-> 1,
                   z2 |-> 3, block_type |-> "stone"]),
     Task("line", [x1 |-> 3, y1 |-> 3, z1 |-> 3, x2 |-> 3, y2 |-> 3,
                   z2 |-> 3, block_type |-> "oak_planks"]),
     Task("line", [x1 |-> 0, y1 |-> 0, z1 |-> 0, x2 |-> 4, y2 |-> 2,
                   z2 |-> 1, block_type |-> "stone"]),
     Task("line", [x1 |-> 2, y1 |-> -1, z1 |-> 0, x2 |-> -2, y2 |-> 1,
                   z2 |-> 3, block_type |-> "stone"])}

Tasks ==
    {Task("cube", a) : a \in CubeArgs \cup CubeArgsH}
    \cup {Task("hollow_cube", a) : a \in CubeArgs}
    \cup {Task("sphere", a) : a \in BallArgs \cup BallArgsH}
    \cup {Task("hollow_sphere", a) : a \in BallArgs}
    \cup {Task("circle", a) : a \in BallArgsH}
    \cup {Task("cylinder", a) : a \in CylArgs}
    \cup {Task("pyramid", a) : a \in PyrArgs}
    \cup {Task("arch", a) : a \in ArchArgs}
    \cup {Task("single_block", a) : a \in PointArgs}
    \cup {Task("line", a) : a \in LineArgs}
    \cup {Task("Cube", a) : a \in PointArgs}
    \cup {NotADict}
    \cup AliasTasks
    \cup PartialTasks
    \cup LineExamples
    \cup MalformedTasks

\* the items an LLM answer of a generator is drawn from
GenPos == {<<0, 0, 0>>, <<-1, 2, 1>>, <<3, -2, -1>>}

GenTasks ==
    UNION {
      {Task("cube", [x |-> p[1], y |-> p[2], z |-> p[3], size_x |-> 2,
                     size_y |-> 1, size_z |-> 2, block_type |-> "stone"]),
       Task("hollow_cube", [x |-> p[1], y |-> p[2], z |-> p[3], size_x |-> 3,
                     size_y |-> 3, size_z |-> 3, block_type |-> "glass"]),
       Task("sphere", [x |-> p[1], y |-> p[2], z |-> p[3], radius |-> 1,
                     block_type |-> "stone"]),
       Task("pyramid", [x |-> p[1], y |-> p[2], z |-> p[3], base_size |-> 3]),
       Task("line", [x1 |-> p[1], y1 |-> p[2], z1 |-> p[3],
                     x2 |-> p[3], y2 |-> p[1], z2 |-> p[2]]),
       Task("cube", [x |-> p[1], y |-> p[2], z |-> p[3], size_x |-> 0])}
      : p \in GenPos}
    \cup {Task("torus", EmptyArgs)}

\* an item without 'args', and a non-dict
GenItems == GenTasks \cup {[tool |-> "cube"], NotADict}

RECURSIVE SeqsUpTo(_, _)
\* the sequences over S of length at most n
SeqsUpTo(S, n) ==
    IF n = 0 THEN {<<>>}
    ELSE LET shorter == SeqsUpTo(S, n - 1)
         IN  shorter \cup {Append(s, e) : s \in shorter, e \in S}

(***************************************************************************)
(* SpecRaster: one call of generate_blocks_from_task on a task drawn from  *)
(* Tasks.                                                                  *)
(***************************************************************************)
GenIdle ==
    /\ llm_output = <<>>
    /\ generated_components = <<>>
    /\ actual_block_commands = <<>>
    /\ spatial_metadata = NoMeta
    /\ gpc = "idle"

RasterIdle ==
    /\ task = NotADict
    /\ blocks = <<>>
    /\ rpc = "idle"

EvalIdle ==
    /\ ejobs = <<>>
    /\ frames = <<>>

ComposeIdle ==
    /\ final_plan_file = NoFile
    /\ build_dir = [f \in Files |-> NoFile]
    /\ base = <<0, 0, 0>>
    /\ final_block_list = <<>>
    /\ epc = "idle"
    /\ bi = 0
    /\ world = {}
    /\ sent = <<>>

\* a request of command_queue.json; its prompt stands for the message text
Request(n) == [player |-> "Steve", prompt |-> n]

NoRequest == [player |-> "", prompt |-> 0]

Prompts == 1..MaxRequests

\* final_build_plan.json: absent, or written during the work on a request
\* (NoRequest: left by an earlier run of the planner)
AbsentPlan == [exists |-> FALSE, written_for |-> NoRequest]

PlanFor(r) == [exists |-> TRUE, written_for |-> r]

\* read_json_file(...) is None
NoDecision == [failed |-> TRUE]

PlannerIdle ==
    /\ queue_file = <<>>
    /\ lpc = "idle"
    /\ listener_requests = <<>>
    /\ arrived = 0
    /\ ppc = "idle"
    /\ requests = <<>>
    /\ request_data = NoRequest
    /\ current_requests = <<>>
    /\ route_decision = NoDecision
    /\ build_exists = FALSE
    /\ component_files = {}
    /\ plan_file = AbsentPlan
    /\ trail = <<>>
    /\ status = [n \in Prompts |-> "new"]
    /\ taken = <<>>
    /\ duplicated = FALSE
    /\ requeued = NoRequest
    /\ builds = {}

\* the value of llm_result before the call has returned
NoResult == [success |-> FALSE, payload |-> "none"]

LlmIdle ==
    /\ expect_json = TRUE
    /\ attempt = 0
    /\ api_log = <<>>
    /\ llm_pc = "idle"
    /\ llm_result = NoResult

KeysIdle ==
    /\ api_keys = NoFile
    /\ key_state = NoFile
    /\ returned_keys = <<>>
    /\ key_errors = 0

ServiceIdle ==
    /\ PlannerIdle
    /\ LlmIdle
    /\ KeysIdle

RasterInit ==
    /\ task \in Tasks
    /\ blocks = <<>>
    /\ rpc = "ready"
    /\ GenIdle
    /\ ComposeIdle
    /\ EvalIdle
    /\ ServiceIdle

\* the call returns its list, or the TypeError leaves it
Rasterize ==
    /\ rpc = "ready"
    /\ IF raises_TypeError(task)
       THEN /\ rpc' = "raised"
            /\ UNCHANGED blocks
       ELSE /\ blocks' = generate_blocks_from_task(task)
            /\ rpc' = "done"
    /\ UNCHANGED <<task, genVars, composeVars, evalVars, serviceVars>>

RasterNext == Rasterize

SpecRaster == RasterInit /\ [][RasterNext]_vars

(***************************************************************************)
(* SpecGen: one run of a generator's generate() on an LLM answer.          *)
(***************************************************************************)
\* what get_llm_response handed back: (success, payload)
LlmAnswers ==
    {[success |-> FALSE, is_list |-> FALSE, output |-> <<>>],
     [success |-> TRUE, is_list |-> FALSE, output |-> <<>>]}
    \cup {[success |-> TRUE, is_list |-> TRUE, output |-> s] :
            s \in SeqsUpTo(GenItems, MaxComponents)}

GenInit ==
    /\ GenIdle
    /\ RasterIdle
    /\ ComposeIdle
    /\ EvalIdle
    /\ ServiceIdle

BuildingGenerator_generate(resp) ==
    /\ gpc = "idle"
    /\ llm_output' = resp.output
    /\ IF ~resp.success \/ ~resp.is_list
       THEN /\ generated_components' = <<>>
            /\ actual_block_commands' = <<>>
            /\ spatial_metadata' = NoMeta
       ELSE LET comps == SelectSeq(resp.output, valid_item)
                bs == extend_all(comps, 1)
            IN  /\ generated_components' = comps
                /\ actual_block_commands' = bs
                /\ spatial_metadata' = compute_spatial_metadata(bs)
    /\ gpc' = "done"
    /\ UNCHANGED <<rasterVars, composeVars, evalVars, serviceVars>>

\* from `if not generated_components` on; a failed call gives no components
SmartWallGenerator_generate(resp) ==
    /\ gpc = "idle"
    /\ resp.is_list \/ ~resp.success
    /\ llm_output' = resp.output
    /\ LET comps == IF resp.success THEN resp.output ELSE <<>>
           bs == extend_all(comps, 1)
       IN  /\ generated_components' = comps
           /\ IF comps = <<>>
              THEN /\ actual_block_commands' = <<>>
                   /\ spatial_metadata' = NoMeta
              ELSE /\ actual_block_commands' = bs
                   /\ spatial_metadata' = compute_spatial_metadata(bs)
    /\ gpc' = "done"
    /\ UNCHANGED <<rasterVars, composeVars, evalVars, serviceVars>>

GenNext ==
    \/ \E resp \in LlmAnswers : BuildingGenerator_generate(resp)
    \/ \E resp \in LlmAnswers : SmartWallGenerator_generate(resp)

SpecGen == GenInit /\ [][GenNext]_vars

(***************************************************************************)
(* SpecCompose: one call of execute_final_plan, with the build it starts.  *)
(***************************************************************************)
OffsetChoices == {[x |-> 1, y |-> 0, z |-> 0], [y |-> 2],
                  [x |-> -1, y |-> 2, z |-> 3]}

PlanEntries ==
    {[file_name |-> f] : f \in Files}
    \cup {[file_name |-> f, offset |-> o] : f \in Files, o \in OffsetChoices}

PlanFiles ==
    {NoFile} \cup {[kind |-> "list", data |-> pl] : pl \in SeqsUpTo(PlanEntries, MaxPlan)}

WithBlocks(bs) == [kind |-> "with_blocks", data |-> bs]

\* component files: the second list collides with the first under the
\* offsets above, the third holds one coordinate twice
ComponentFiles ==
    [Files ->
        {NoFile,
         [kind |-> "empty_dict", data |-> <<>>],
         [kind |-> "no_blocks", data |-> <<>>],
         WithBlocks(<<Block(0, 0, 0, "stone"), Block(1, 0, 0, "stone")>>),
         WithBlocks(<<Block(1, 0, 0, "glass"), Block(0, 0, 0, "glass")>>),
         WithBlocks(<<Block(0, 2, 0, "oak_planks"), Block(0, 2, 0, "glass")>>)}]

\* (True, [x, y, z]) in half blocks, or (False, message)
PositionResults ==
    {[ok |-> FALSE, pos |-> <<0, 0, 0>>],
     [ok |-> TRUE, pos |-> <<0, 128, -6>>],
     [ok |-> TRUE, pos |-> <<-5, 129, 7>>],
     [ok |-> TRUE, pos |-> <<-3, 129, 7>>]}

ComposeInit ==
    /\ final_plan_file \in PlanFiles
    /\ build_dir \in ComponentFiles
    /\ base = <<0, 0, 0>>
    /\ final_block_list = <<>>
    /\ epc = "ready"
    /\ bi = 0
    /\ world = {}
    /\ sent = <<>>
    /\ GenIdle
    /\ RasterIdle
    /\ EvalIdle
    /\ ServiceIdle

\* execute_final_plan up to its call of execute_build
execute_final_plan(pos_result) ==
    /\ epc = "ready"
    /\ IF not_plan(final_plan_file)
       THEN /\ epc' = "no_plan"
            /\ UNCHANGED <<base, final_block_list>>
       ELSE IF ~pos_result.ok
       THEN /\ epc' = "no_position"
            /\ UNCHANGED <<base, final_block_list>>
       ELSE /\ base' = pos_result.pos
            /\ final_block_list' =
                    compose(final_plan_file.data, 1, build_dir, pos_result.pos)
            /\ epc' = "execute_build"
    /\ UNCHANGED <<final_plan_file, build_dir, bi, world, sent, rasterVars,
                   genVars, evalVars, serviceVars>>

\* execute_build: the empty check, the connection and the start message
execute_build_start ==
    /\ epc = "execute_build"
    /\ IF final_block_list = <<>>
       THEN /\ epc' = "nothing_to_build"
            /\ UNCHANGED sent
       ELSE /\ epc' = "placing"
            /\ sent' = Append(sent, <<"tellraw start", Len(final_block_list)>>)
    /\ UNCHANGED <<final_plan_file, build_dir, base, final_block_list, bi,
                   world, rasterVars, genVars, evalVars, serviceVars>>

\* one iteration of the setblock loop, with its progress message
execute_build_setblock ==
    /\ epc = "placing"
    /\ bi < Len(final_block_list)
    /\ LET block == next_block(final_block_list, bi)
       IN  /\ world' = setblock(world, block)
           /\ sent' = IF (bi + 1) % ProgressEvery = 0
                      THEN sent \o <<<<"setblock", block>>,
                                     <<"tellraw progress", bi + 1>>>>
                      ELSE Append(sent, <<"setblock", block>>)
    /\ bi' = bi + 1
    /\ UNCHANGED <<final_plan_file, build_dir, base, final_block_list, epc,
                   rasterVars, genVars, evalVars, serviceVars>>

\* the completion message after the loop
execute_build_end ==
    /\ epc = "placing"
    /\ bi = Len(final_block_list)
    /\ sent' = Append(sent, <<"tellraw end", bi>>)
    /\ epc' = "done"
    /\ UNCHANGED <<final_plan_file, build_dir, base, final_block_list, bi,
                   world, rasterVars, genVars, evalVars, serviceVars>>

\* the connection or a command raises: `except Exception` ends the build
execute_build_except ==
    /\ epc \in {"execute_build", "placing"}
    /\ final_block_list # <<>>
    /\ epc' = "failed"
    /\ UNCHANGED <<final_plan_file, build_dir, base, final_block_list, bi,
                   world, sent, rasterVars, genVars, evalVars, serviceVars>>

ComposeNext ==
    \/ \E pos_result \in PositionResults : execute_final_plan(pos_result)
    \/ execute_build_start
    \/ execute_build_setblock
    \/ execute_build_end
    \/ execute_build_except

SpecCompose == ComposeInit /\ [][ComposeNext]_vars

(***************************************************************************)
(* SpecBuild: one call of RconClient.execute_build on a block list, short  *)
(* or long enough for progress messages.                                   *)
(***************************************************************************)
BuildLengths ==
    {0, 1, ProgressEvery - 1, ProgressEvery, ProgressEvery + 1,
     2 * ProgressEvery, MaxBuild}

BuildLists ==
    {[n \in 1..len |-> Block(n, 64, 0, IF n % 2 = 0 THEN "stone" ELSE "glass")] :
        len \in BuildLengths}

BuildInit ==
    /\ final_plan_file = NoFile
    /\ build_dir = [f \in Files |-> NoFile]
    /\ base = <<0, 0, 0>>
    /\ final_block_list \in BuildLists
    /\ epc = "execute_build"
    /\ bi = 0
    /\ world = {}
    /\ sent = <<>>
    /\ GenIdle
    /\ RasterIdle
    /\ EvalIdle
    /\ ServiceIdle

BuildNext ==
    \/ execute_build_start
    \/ execute_build_setblock
    \/ execute_build_end
    \/ execute_build_except

SpecBuild == BuildInit /\ [][BuildNext]_vars

(***************************************************************************)
(* SpecEval: two evaluations (each a call of generate_blocks_from_task or  *)
(* a run of the composer's loops) taking their loop iterations in any      *)
(* interleaving.  Each call has its own frame: its position in the loop    *)
(* and its local list (`blocks = []`, `final_block_list = []`).            *)
(***************************************************************************)
Evaluations == {1, 2}

RasterJob(t) == [kind |-> "rasterize", task |-> t]

ComposeJob(pl, dir, wb) ==
    [kind |-> "compose", plan |-> pl, dir |-> dir, world_base |-> wb]

EvalDir ==
    [f \in Files |->
        IF f = "a.json"
        THEN [kind |-> "with_blocks",
              data |-> <<Block(0, 0, 0, "stone"), Block(1, 0, 0, "stone")>>]
        ELSE [kind |-> "with_blocks", data |-> <<Block(1, 0, 0, "glass")>>]]

EvalJobs ==
    {RasterJob(Task("hollow_cube", [x |-> 0, y |-> 0, z |-> 0, size_x |-> 2,
                                    size_y |-> 1, size_z |-> 2,
                                    block_type |-> "stone"])),
     RasterJob(Task("sphere", [x |-> -1, y |-> 2, z |-> 1, radius |-> 1,
                               block_type |-> "glass"])),
     RasterJob(Task("line", [x2 |-> 2, y2 |-> 1])),
     RasterJob(Task("pyramid", [x |-> 3, base_size |-> 3])),
     RasterJob(Task("single_block", [x |-> 1, y |-> 1, z |-> 1])),
     RasterJob(Task("torus", EmptyArgs)),
     RasterJob(NotADict),
     ComposeJob(<<[file_name |-> "a.json", offset |-> [x |-> 1, y |-> 0, z |-> 0]],
                  [file_name |-> "b.json"]>>, EvalDir, <<0, 128, -6>>),
     ComposeJob(<<[file_name |-> "b.json", offset |-> [y |-> 2]]>>, EvalDir,
                <<-5, 129, 7>>)}

\* whether the call reaches a loop (a dict naming a known tool, or a plan)
has_loop(job) ==
    IF job.kind = "compose" THEN TRUE
    ELSE isinstance_dict(job.task) /\ Get(job.task, "tool", None) \in ToolNames

job_resolve(job) ==
    resolve(Get(job.task, "tool", None), Get(job.task, "args", EmptyArgs))

job_iter(job) ==
    IF job.kind = "compose" THEN compose_iter(job.plan, 1, job.dir)
    ELSE shape_iter(job_resolve(job))

job_keep(job, c) ==
    IF job.kind = "compose" THEN TRUE
    ELSE shape_keep(job_resolve(job), c)

job_block(job, c) ==
    IF job.kind = "compose"
    THEN compose_block(job.plan, job.dir, job.world_base, c)
    ELSE shape_block(job_resolve(job), c)

append_block_Shared(fr, e, b) ==
    [k \in DOMAIN fr |-> [fr[k] EXCEPT !.blocks = Append(@, b)]]

\* blocks.append(b) in the frame of evaluation e
append_block(fr, e, b) == [fr EXCEPT ![e].blocks = Append(@, b)]

EvalInit ==
    /\ ejobs \in [Evaluations -> EvalJobs]
    /\ frames = [e \in Evaluations |-> [pc |-> "call", n |-> 0, blocks |-> <<>>]]
    /\ RasterIdle
    /\ GenIdle
    /\ ComposeIdle
    /\ ServiceIdle

\* the call: the checks before the loop, and the empty local list
eval_call(e) ==
    /\ frames[e].pc = "call"
    /\ frames' = [frames EXCEPT ![e].pc =
                        IF has_loop(ejobs[e]) THEN "loop" ELSE "returned"]
    /\ UNCHANGED <<ejobs, rasterVars, genVars, composeVars, serviceVars>>

\* one loop iteration
eval_iterate(e) ==
    /\ frames[e].pc = "loop"
    /\ frames[e].n < Len(job_iter(ejobs[e]))
    /\ LET c == job_iter(ejobs[e])[frames[e].n + 1]
           appended == IF job_keep(ejobs[e], c)
                       THEN append_block(frames, e, job_block(ejobs[e], c))
                       ELSE frames
       IN  frames' = [appended EXCEPT ![e].n = @ + 1]
    /\ UNCHANGED <<ejobs, rasterVars, genVars, composeVars, serviceVars>>

\* the loop is over: return the local list
eval_return(e) ==
    /\ frames[e].pc = "loop"
    /\ frames[e].n = Len(job_iter(ejobs[e]))
    /\ frames' = [frames EXCEPT ![e].pc = "returned"]
    /\ UNCHANGED <<ejobs, rasterVars, genVars, composeVars, serviceVars>>

EvalNext ==
    \E e \in Evaluations :
        \/ eval_call(e)
        \/ eval_iterate(e)
        \/ eval_return(e)

SpecEval == EvalInit /\ [][EvalNext]_vars

(***************************************************************************)
(* SpecPlanner: the chat listener (src/src/mc_listener.py) and the         *)
(* planner's main_loop (src/src/main_planner.py) as two processes sharing  *)
(* command_queue.json.  Each read and each write of the file is one step;  *)
(* the router, the designer, the generator subprocesses, the supervisor    *)
(* and the player position answer as the environment chooses.              *)
(***************************************************************************)
GeneratorScripts == {"building_generator.py"}

SubTask(g) == [generator |-> g, name |-> "part", task |-> "text"]

SubTaskLists ==
    {<<>>,
     <<SubTask("building_generator.py")>>,
     <<SubTask("missing_generator.py")>>,
     <<SubTask("building_generator.py"), SubTask("building_generator.py")>>}

\* what route_request returns: None, or the JSON object of the LLM
RouteDecisions ==
    {NoDecision,
     [reason |-> "text"],
     [action |-> "design_new_generator"],
     [action |-> "run_existing_generators"],
     [action |-> "chat"]}
    \cup {[action |-> "run_existing_generators", sub_tasks |-> st] :
            st \in SubTaskLists}

\* how one generator subprocess ends: exit 0 with its component file
\* written, exit 0 without one, or a non-zero exit
SubprocessOutcomes == {"wrote", "wrote_nothing", "failed"}

PlannerInit ==
    /\ queue_file = <<>>
    /\ lpc = "follow"
    /\ listener_requests = <<>>
    /\ arrived = 0
    /\ ppc = "loop"
    /\ requests = <<>>
    /\ request_data = NoRequest
    /\ current_requests = <<>>
    /\ route_decision = NoDecision
    /\ build_exists \in BOOLEAN
    /\ component_files \in (IF build_exists THEN {{}, {NoRequest}} ELSE {{}})
    /\ plan_file \in {AbsentPlan, PlanFor(NoRequest)}
    /\ trail = <<>>
    /\ status = [n \in Prompts |-> "new"]
    /\ taken = <<>>
    /\ duplicated = FALSE
    /\ requeued = NoRequest
    /\ builds = {}
    /\ RasterIdle
    /\ GenIdle
    /\ ComposeIdle
    /\ EvalIdle
    /\ LlmIdle
    /\ KeysIdle

\* the planner's variables an action of the listener leaves alone
loopVars == <<ppc, requests, request_data, current_requests, route_decision,
              build_exists, component_files, plan_file, trail, taken,
              duplicated, requeued, builds>>

fileVars == <<build_exists, component_files, plan_file>>

listenerVars == <<lpc, listener_requests, arrived>>

modelVars == <<rasterVars, genVars, composeVars, evalVars, llmVars, keyVars>>

\* mc_listener lines 55-57: open the queue, json.load, append the request
listener_load ==
    /\ lpc = "follow"
    /\ arrived < MaxRequests
    /\ listener_requests' = Append(queue_file, Request(arrived + 1))
    /\ lpc' = "dump"
    /\ UNCHANGED <<queue_file, arrived, status, loopVars, modelVars>>

\* mc_listener lines 58-60: seek(0), json.dump, truncate
listener_dump ==
    /\ lpc = "dump"
    /\ queue_file' = listener_requests
    /\ arrived' = arrived + 1
    /\ status' = [status EXCEPT ![arrived + 1] = "queued"]
    /\ lpc' = "follow"
    /\ UNCHANGED <<listener_requests, loopVars, modelVars>>

\* the end of an iteration that does not put the request back
finish(r) ==
    IF r.prompt \in Prompts /\ status[r.prompt] = "taken"
    THEN [status EXCEPT ![r.prompt] = "finished"]
    ELSE status

\* main_loop lines 170-175: read the queue; sleep when it is empty,
\* otherwise pop the head
main_loop_read ==
    /\ ppc = "loop"
    /\ IF queue_file = <<>>
       THEN UNCHANGED <<ppc, requests, request_data, trail, status, taken,
                        duplicated, requeued>>
       ELSE LET r == Head(queue_file)
            IN  /\ request_data' = r
                /\ requests' = Tail(queue_file)
                /\ ppc' = "write_queue"
                /\ trail' = <<>>
                /\ requeued' = NoRequest
                /\ IF status[r.prompt] = "queued"
                   THEN /\ status' = [status EXCEPT ![r.prompt] = "taken"]
                        /\ taken' = IF \E n \in DOMAIN taken : taken[n] = r.prompt
                                    THEN taken
                                    ELSE Append(taken, r.prompt)
                        /\ UNCHANGED duplicated
                   ELSE /\ duplicated' = TRUE
                        /\ UNCHANGED <<status, taken>>
    /\ UNCHANGED <<queue_file, current_requests, route_decision, fileVars,
                   builds, listenerVars, modelVars>>

\* main_loop line 176: write the queue without its head
main_loop_write ==
    /\ ppc = "write_queue"
    /\ queue_file' = requests
    /\ ppc' = "clear_build_directory"
    /\ UNCHANGED <<requests, request_data, current_requests, route_decision,
                   fileVars, trail, status, taken, duplicated, requeued,
                   builds, listenerVars, modelVars>>

\* clear_build_directory (lines 93-103)
clear_build_directory ==
    /\ ppc = "clear_build_directory"
    /\ IF ~build_exists
       THEN /\ build_exists' = TRUE
            /\ UNCHANGED <<component_files, plan_file>>
       ELSE /\ component_files' = {}
            /\ plan_file' = AbsentPlan
            /\ UNCHANGED build_exists
    /\ trail' = Append(trail, IF component_files' = {} /\ ~plan_file'.exists
                              THEN "cleared"
                              ELSE "left_over")
    /\ ppc' = "route_request"
    /\ UNCHANGED <<queue_file, requests, request_data, current_requests,
                   route_decision, status, taken, duplicated, requeued,
                   builds, listenerVars, modelVars>>

\* route_decision.get('sub_tasks', [])
sub_tasks_of(decision) ==
    IF "sub_tasks" \in DOMAIN decision THEN decision.sub_tasks ELSE <<>>

\* where main_loop goes with the router's answer (lines 188-219, 230-231)
after_route(decision) ==
    IF decision = NoDecision \/ "action" \notin DOMAIN decision THEN "loop"
    ELSE IF decision.action = "design_new_generator" THEN "create_new_generator"
    ELSE IF decision.action = "run_existing_generators"
         THEN IF sub_tasks_of(decision) = <<>> THEN "loop" ELSE "run_generators"
    ELSE "loop"

\* main_loop lines 187-219: the router's decision and the branch on it
route_request(decision) ==
    /\ ppc = "route_request"
    /\ route_decision' = decision
    /\ ppc' = after_route(decision)
    /\ trail' = IF after_route(decision) = "loop" THEN trail
                ELSE Append(trail, decision.action)
    /\ status' = IF after_route(decision) = "loop" THEN finish(request_data)
                 ELSE status
    /\ UNCHANGED <<queue_file, requests, request_data, current_requests,
                   fileVars, taken, duplicated, requeued, builds,
                   listenerVars, modelVars>>

\* main_loop lines 203-212: the designer's result; on failure the
\* iteration ends
create_new_generator(success) ==
    /\ ppc = "create_new_generator"
    /\ ppc' = IF success THEN "requeue_read" ELSE "loop"
    /\ status' = IF success THEN status ELSE finish(request_data)
    /\ UNCHANGED <<queue_file, requests, request_data, current_requests,
                   route_decision, fileVars, trail, taken, duplicated,
                   requeued, builds, listenerVars, modelVars>>

\* main_loop line 207: read the queue again
requeue_read ==
    /\ ppc = "requeue_read"
    /\ current_requests' = queue_file
    /\ ppc' = "requeue_write"
    /\ UNCHANGED <<queue_file, requests, request_data, route_decision,
                   fileVars, trail, status, taken, duplicated, requeued,
                   builds, listenerVars, modelVars>>

\* main_loop lines 208-209: insert the request at the head and write
requeue_write ==
    /\ ppc = "requeue_write"
    /\ queue_file' = <<request_data>> \o current_requests
    /\ requeued' = request_data
    /\ status' = [status EXCEPT ![request_data.prompt] = "queued"]
    /\ ppc' = "loop"
    /\ UNCHANGED <<requests, request_data, current_requests, route_decision,
                   fileVars, trail, taken, duplicated, builds, listenerVars,
                   modelVars>>

\* the sub-tasks whose subprocess is started: the script exists and no
\* earlier subprocess has exited non-zero (check=True raises)
started(sub_tasks, outcomes) ==
    {n \in DOMAIN sub_tasks :
        /\ sub_tasks[n].generator \in GeneratorScripts
        /\ \A m \in 1..(n - 1) :
            sub_tasks[m].generator \in GeneratorScripts
                => outcomes[m] # "failed"}

\* run_generators (lines 105-117) as called at line 222
run_generators(outcomes) ==
    /\ ppc = "run_generators"
    /\ LET sub_tasks == sub_tasks_of(route_decision)
           ran == started(sub_tasks, outcomes)
           raised == \E n \in ran : outcomes[n] = "failed"
       IN  /\ component_files' =
                IF \E n \in ran : outcomes[n] = "wrote"
                THEN component_files \cup {request_data}
                ELSE component_files
           /\ ppc' = IF raised THEN "loop" ELSE "run_supervisor"
           /\ trail' = IF raised THEN trail ELSE Append(trail, "generators_ok")
           /\ status' = IF raised THEN finish(request_data) ELSE status
    /\ UNCHANGED <<queue_file, requests, request_data, current_requests,
                   route_decision, build_exists, plan_file, taken,
                   duplicated, requeued, builds, listenerVars, modelVars>>

\* run_supervisor (lines 119-125) with supervisor.py's main: it returns
\* early on an empty build directory, exits 1 when the LLM fails and
\* otherwise writes the final plan
run_supervisor(llm_success) ==
    /\ ppc = "run_supervisor"
    /\ IF component_files = {}
       THEN /\ trail' = Append(trail, "supervisor_returned")
            /\ ppc' = "execute_final_plan"
            /\ UNCHANGED <<plan_file, status>>
       ELSE IF llm_success
       THEN /\ plan_file' = PlanFor(request_data)
            /\ trail' = Append(trail, "supervisor_wrote")
            /\ ppc' = "execute_final_plan"
            /\ UNCHANGED status
       ELSE /\ ppc' = "loop"
            /\ status' = finish(request_data)
            /\ UNCHANGED <<plan_file, trail>>
    /\ UNCHANGED <<queue_file, requests, request_data, current_requests,
                   route_decision, build_exists, component_files, taken,
                   duplicated, requeued, builds, listenerVars, modelVars>>

\* main_loop line 228: execute_final_plan reads the plan, asks for the
\* player's position, reads the component files and hands the blocks to
\* execute_build, which sends one setblock per block
main_loop_execute_final_plan(pos_success) ==
    /\ ppc = "execute_final_plan"
    /\ builds' =
        IF ~plan_file.exists THEN builds
        ELSE builds \cup {[request |-> request_data,
                           plan |-> plan_file.written_for,
                           components |-> IF pos_success THEN component_files
                                          ELSE {},
                           trail |-> trail,
                           placed |-> pos_success /\ component_files # {}]}
    /\ status' = finish(request_data)
    /\ ppc' = "loop"
    /\ UNCHANGED <<queue_file, requests, request_data, current_requests,
                   route_decision, fileVars, trail, taken, duplicated,
                   requeued, listenerVars, modelVars>>

Listener ==
    \/ listener_load
    \/ listener_dump

MainLoop ==
    \/ main_loop_read
    \/ main_loop_write
    \/ clear_build_directory
    \/ \E decision \in RouteDecisions : route_request(decision)
    \/ \E success \in BOOLEAN : create_new_generator(success)
    \/ requeue_read
    \/ requeue_write
    \/ \E outcomes \in [1..Len(sub_tasks_of(route_decision)) -> SubprocessOutcomes] :
            run_generators(outcomes)
    \/ \E llm_success \in BOOLEAN : run_supervisor(llm_success)
    \/ \E pos_success \in BOOLEAN : main_loop_execute_final_plan(pos_success)

PlannerNext == Listener \/ MainLoop

SpecPlanner == PlannerInit /\ [][PlannerNext]_vars

\* the planner keeps running, and a listener that has loaded the queue
\* writes it back; chat messages need not arrive
SpecPlannerFair ==
    PlannerInit /\ [][PlannerNext]_vars /\ WF_vars(MainLoop) /\ WF_vars(listener_dump)

(***************************************************************************)
(* SpecLlm: one call of get_llm_response (src/src/util.py); every API call *)
(* ends as the environment chooses.                                        *)
(***************************************************************************)
max_retries == 3

\* how one pass through the try block can end: one of the three API
\* exceptions, any other exception, an empty message, a message that is
\* not JSON, a JSON message, a JSON message inside a ```json fence
ApiOutcomes == {"api_error", "unexpected", "empty", "text", "json", "fenced_json"}

on_response_RetryBadJson(outcome, expect) ==
    CASE outcome \in {"api_error", "unexpected", "empty"} -> "retry"
      [] outcome = "text" -> IF expect THEN "retry" ELSE "return_text"
      [] outcome \in {"json", "fenced_json"} ->
            IF expect THEN "return_json" ELSE "return_text"

\* what lines 78-100 do with the outcome of the API call
on_response(outcome, expect) ==
    CASE outcome \in {"api_error", "unexpected", "empty"} -> "retry"
      [] outcome = "text" -> IF expect THEN "return_json_error" ELSE "return_text"
      [] outcome \in {"json", "fenced_json"} ->
            IF expect THEN "return_json" ELSE "return_text"

LlmInit ==
    /\ expect_json \in BOOLEAN
    /\ attempt = 0
    /\ api_log = <<>>
    /\ llm_pc = "loop"
    /\ llm_result = NoResult
    /\ RasterIdle
    /\ GenIdle
    /\ ComposeIdle
    /\ EvalIdle
    /\ PlannerIdle
    /\ KeysIdle

\* one iteration of the for loop (lines 66-100), with the return after the
\* loop (line 102) when it was the last one
get_llm_response(outcome) ==
    /\ llm_pc = "loop"
    /\ attempt < max_retries
    /\ api_log' = Append(api_log, outcome)
    /\ LET todo == on_response(outcome, expect_json)
       IN  IF todo = "retry"
           THEN IF attempt + 1 < max_retries
                THEN /\ attempt' = attempt + 1
                     /\ UNCHANGED <<llm_pc, llm_result>>
                ELSE /\ llm_result' = [success |-> FALSE, payload |-> "max_retries"]
                     /\ llm_pc' = "returned"
                     /\ UNCHANGED attempt
           ELSE /\ llm_result' =
                    CASE todo = "return_json" -> [success |-> TRUE, payload |-> "parsed"]
                      [] todo = "return_text" -> [success |-> TRUE, payload |-> outcome]
                      [] todo = "return_json_error" ->
                            [success |-> FALSE, payload |-> "json_error"]
                /\ llm_pc' = "returned"
                /\ UNCHANGED attempt
    /\ UNCHANGED <<expect_json, rasterVars, genVars, composeVars, evalVars,
                   plannerVars, keyVars>>

LlmNext == \E outcome \in ApiOutcomes : get_llm_response(outcome)

SpecLlm == LlmInit /\ [][LlmNext]_vars

\* every API call ends (the client has a timeout), so the loop goes on
SpecLlmFair == LlmInit /\ [][LlmNext]_vars /\ WF_vars(LlmNext)

(***************************************************************************)
(* SpecKeys: sequential calls of get_next_api_key (src/src/key_manager.py) *)
(* on a fixed key list.                                                    *)
(***************************************************************************)
MaxCalls == 2 * MaxKeys

ApiKey(n) == [api_key |-> n]

\* api_keys_list.json: missing, empty, or n keys
KeyLists ==
    {NoFile}
    \cup {[kind |-> "list", data |-> [i \in 1..n |-> ApiKey(i)]] : n \in 0..MaxKeys}

StateOf(index) == [kind |-> "dict", data |-> [last_used_index |-> index]]

\* key_state.json after earlier calls on a list of n keys: missing, a dict
\* without the index, or an index of the list
KeyStates(n) ==
    {NoFile, [kind |-> "dict", data |-> EmptyArgs]}
    \cup {StateOf(index) : index \in 0..(n - 1)}

\* `not api_keys`
no_keys(file) == is_None(file) \/ file.data = <<>>

\* lines 26-29
last_index_of(state) ==
    IF ~is_None(state) /\ "last_used_index" \in DOMAIN state.data
    THEN state.data.last_used_index
    ELSE -1

next_index_Skip(last_index, n) == (last_index + 2) % n

\* line 32
next_index(last_index, n) == (last_index + 1) % n

KeysInit ==
    /\ api_keys \in KeyLists
    /\ key_state \in KeyStates(IF no_keys(api_keys) THEN MaxKeys
                               ELSE Len(api_keys.data))
    /\ returned_keys = <<>>
    /\ key_errors = 0
    /\ RasterIdle
    /\ GenIdle
    /\ ComposeIdle
    /\ EvalIdle
    /\ PlannerIdle
    /\ LlmIdle

\* get_next_api_key (lines 15-39)
get_next_api_key ==
    /\ Len(returned_keys) + key_errors < MaxCalls
    /\ IF no_keys(api_keys)
       THEN /\ key_errors' = key_errors + 1
            /\ UNCHANGED <<key_state, returned_keys>>
       ELSE LET index == next_index(last_index_of(key_state), Len(api_keys.data))
            IN  /\ key_state' = StateOf(index)
                /\ returned_keys' = Append(returned_keys, api_keys.data[index + 1])
                /\ UNCHANGED key_errors
    /\ UNCHANGED <<api_keys, rasterVars, genVars, composeVars, evalVars,
                   plannerVars, llmVars>>

KeysNext == get_next_api_key

SpecKeys == KeysInit /\ [][KeysNext]_vars

(***************************************************************************)
(* Properties of the rasterizers (checked under SpecRaster).               *)
(***************************************************************************)
Called(tools) ==
    rpc = "done" /\ isinstance_dict(task) /\ Get(task, "tool", None) \in tools

\* the args of the task, and the documented value of each parameter: the
\* one given in args, else the default of the table of shapes
Args == Get(task, "args", EmptyArgs)

Documented ==
    [x |-> 0, y |-> 0, z |-> 0, size_x |-> 1, size_y |-> 1, size_z |-> 1,
     radius |-> 5, height |-> 10, base_size |-> 10, width |-> 3,
     x1 |-> 0, y1 |-> 0, z1 |-> 0, x2 |-> 0, y2 |-> 0, z2 |-> 0,
     hollow |-> FALSE, block_type |-> "stone"]

P(k) == IF k \in DOMAIN Args THEN Args[k] ELSE Documented[k]

Centre == [x |-> P("x"), y |-> P("y"), z |-> P("z")]

ArgHollow == P("hollow")

\* the lattice points of [x,x+a) x [y,y+b) x [z,z+c)
Box(x, y, z, a, b, c) ==
    {<<x + i, y + j, z + k>> : i \in 0..(a - 1), j \in 0..(b - 1), k \in 0..(c - 1)}

NoDuplicates(bs) == Cardinality(Coords(bs)) = Len(bs)

\* C1: a solid cube of sizes a,b,c >= 0 emits exactly the a*b*c lattice
\* points of its box, each exactly once.
C1_SolidCubeCardinality ==
    (Called({"cube"}) /\ ~ArgHollow
        /\ P("size_x") >= 0 /\ P("size_y") >= 0 /\ P("size_z") >= 0)
    =>
       /\ Len(blocks) = P("size_x") * P("size_y") * P("size_z")
       /\ Coords(blocks) = Box(P("x"), P("y"), P("z"), P("size_x"), P("size_y"), P("size_z"))
       /\ NoDuplicates(blocks)

C1_Witness ==
    /\ Called({"cube"}) /\ ~ArgHollow
    /\ P("size_x") = 2 /\ P("size_y") = 3 /\ P("size_z") = 4
    /\ Len(blocks) = 24

IsHollowCubeCall ==
    \/ Called({"hollow_cube"})
    \/ Called({"cube"}) /\ ArgHollow

\* C2: a hollow cube of sizes a,b,c >= 3 emits exactly the box points with
\* an offset at 0 or size-1: a*b*c - (a-2)*(b-2)*(c-2) blocks, none interior.
C2_HollowCubeShell ==
    (IsHollowCubeCall
        /\ P("size_x") >= 3 /\ P("size_y") >= 3 /\ P("size_z") >= 3)
    => LET interior == Box(P("x") + 1, P("y") + 1, P("z") + 1,
                           P("size_x") - 2, P("size_y") - 2, P("size_z") - 2)
       IN  /\ Len(blocks) = P("size_x") * P("size_y") * P("size_z")
                            - (P("size_x") - 2) * (P("size_y") - 2) * (P("size_z") - 2)
           /\ Coords(blocks)
                = Box(P("x"), P("y"), P("z"), P("size_x"), P("size_y"), P("size_z")) \ interior
           /\ NoDuplicates(blocks)

C2_Witness ==
    /\ Called({"hollow_cube"})
    /\ P("size_x") = 3 /\ P("size_y") = 3 /\ P("size_z") = 3
    /\ Len(blocks) = 26

\* C3: with a size below 2 the hollow cube is the solid cube, block for
\* block, in the same order.
C3_HollowCubeDegenerate ==
    (IsHollowCubeCall
        /\ (P("size_x") < 2 \/ P("size_y") < 2 \/ P("size_z") < 2))
    => LET solid == IF Len(blocks) = 0 THEN <<>>
                    ELSE [n \in 1..(P("size_x") * P("size_y") * P("size_z")) |->
                            Block(P("x") + ((n - 1) \div (P("size_y") * P("size_z"))),
                                  P("y") + (((n - 1) \div P("size_z")) % P("size_y")),
                                  P("z") + ((n - 1) % P("size_z")),
                                  P("block_type"))]
       IN  /\ (P("size_x") <= 0 \/ P("size_y") <= 0 \/ P("size_z") <= 0) => blocks = <<>>
           /\ (P("size_x") > 0 /\ P("size_y") > 0 /\ P("size_z") > 0) => blocks = solid

C3_Witness ==
    /\ IsHollowCubeCall
    /\ P("size_x") = 1 /\ P("size_y") = 3 /\ P("size_z") = 3
    /\ Len(blocks) = 9

\* block coordinates minus the centre
Offsets(bs, a) == {<<c[1] - P("x"), c[2] - P("y"), c[3] - P("z")>> : c \in Coords(bs)}

\* C4: the offsets of a sphere (solid or hollow, radius >= 0) are closed
\* under every permutation of the axes and under negating any one axis.
C4_SphereSymmetry ==
    (Called({"sphere", "hollow_sphere"}) /\ P("radius") >= 0)
    => LET O == Offsets(blocks, Centre)
       IN  \A o \in O :
            /\ <<o[1], o[3], o[2]>> \in O
            /\ <<o[2], o[1], o[3]>> \in O
            /\ <<o[2], o[3], o[1]>> \in O
            /\ <<o[3], o[1], o[2]>> \in O
            /\ <<o[3], o[2], o[1]>> \in O
            /\ <<-o[1], o[2], o[3]>> \in O
            /\ <<o[1], -o[2], o[3]>> \in O
            /\ <<o[1], o[2], -o[3]>> \in O

C4_Witness ==
    /\ Called({"hollow_sphere"})
    /\ P("radius") = 2
    /\ <<1, 1, -1>> \in Offsets(blocks, Centre)
    /\ <<0, 0, 2>> \in Offsets(blocks, Centre)

\* C5: for base_size >= 1 the top layer of a pyramid is at y+height-1 with
\* height = (base_size+1) div 2; it is the single block
\* (x+height-1, y+height-1, z+height-1) exactly when base_size is odd, and
\* a 2x2 square when base_size is even.
C5_PyramidApex ==
    (Called({"pyramid"}) /\ P("base_size") >= 1)
    => LET h == (P("base_size") + 1) \div 2
           top == {n \in DOMAIN blocks : blocks[n].y = P("y") + h - 1}
           topC == {<<blocks[n].x, blocks[n].y, blocks[n].z>> : n \in top}
       IN  /\ top # {}
           /\ \A n \in DOMAIN blocks : blocks[n].y <= P("y") + h - 1
           /\ (P("base_size") % 2 = 1) <=> (Cardinality(top) = 1)
           /\ (P("base_size") % 2 = 1) =>
                topC = {<<P("x") + h - 1, P("y") + h - 1, P("z") + h - 1>>}
           /\ (P("base_size") % 2 = 0) =>
                /\ Cardinality(top) = 4
                /\ topC = {<<P("x") + h - 1 + i, P("y") + h - 1, P("z") + h - 1 + k>> :
                            i \in 0..1, k \in 0..1}

C5_Witness ==
    /\ Called({"pyramid"})
    /\ P("base_size") = 5
    /\ Len(blocks) = 35
    /\ blocks[35] = Block(P("x") + 2, P("y") + 2, P("z") + 2,
                          P("block_type"))

(***************************************************************************)
(* Properties of the bounding box (checked under SpecGen).                 *)
(***************************************************************************)
Measured == gpc = "done" /\ "bounding_box" \in DOMAIN spatial_metadata

Contained(bs, bb) ==
    \A n \in DOMAIN bs :
        /\ bb.min_x <= bs[n].x /\ bs[n].x <= bb.max_x
        /\ bb.min_y <= bs[n].y /\ bs[n].y <= bb.max_y
        /\ bb.min_z <= bs[n].z /\ bs[n].z <= bb.max_z

Tight(bs, bb) ==
    /\ \E n \in DOMAIN bs : bs[n].x = bb.min_x
    /\ \E n \in DOMAIN bs : bs[n].x = bb.max_x
    /\ \E n \in DOMAIN bs : bs[n].y = bb.min_y
    /\ \E n \in DOMAIN bs : bs[n].y = bb.max_y
    /\ \E n \in DOMAIN bs : bs[n].z = bb.min_z
    /\ \E n \in DOMAIN bs : bs[n].z = bb.max_z

\* C6 as stated: for every block sequence a generator produced, the stored
\* box contains every block and each of its six extremes is attained by a
\* block.  (Fails for the empty sequence, whose box is all-zero.)
C6_BoundingBoxTight_Original ==
    Measured =>
        /\ Contained(actual_block_commands, spatial_metadata.bounding_box)
        /\ Tight(actual_block_commands, spatial_metadata.bounding_box)

\* C6 amended: for every NON-EMPTY block sequence a generator produced, the
\* stored box contains every block and each of its six extremes is attained
\* by a block; for the empty sequence the box contains (vacuously) every
\* block and no extreme is attained.
C6_BoundingBoxTight ==
    Measured =>
        /\ Contained(actual_block_commands, spatial_metadata.bounding_box)
        /\ actual_block_commands # <<>> =>
                Tight(actual_block_commands, spatial_metadata.bounding_box)

C6_Witness ==
    /\ Measured
    /\ Len(generated_components) = 2
    /\ Len(actual_block_commands) > 26
    /\ spatial_metadata.bounding_box.min_x = -1
    /\ spatial_metadata.bounding_box.max_y = 4
    /\ spatial_metadata.bounding_box.min_z = -2

\* C7: the empty sequence has the all-zero box and dimensions; a non-empty
\* one has width, height, depth = max - min + 1 >= 1; so the dimensions are
\* (0,0,0) exactly for the empty sequence.
C7_BoundingBoxDimensions ==
    Measured =>
        LET bb == spatial_metadata.bounding_box
            d == spatial_metadata.dimensions
        IN  /\ actual_block_commands = <<>> =>
                /\ bb = [min_x |-> 0, min_y |-> 0, min_z |-> 0,
                         max_x |-> 0, max_y |-> 0, max_z |-> 0]
                /\ d = [width |-> 0, height |-> 0, depth |-> 0]
            /\ actual_block_commands # <<>> =>
                /\ d.width = bb.max_x - bb.min_x + 1 /\ d.width >= 1
                /\ d.height = bb.max_y - bb.min_y + 1 /\ d.height >= 1
                /\ d.depth = bb.max_z - bb.min_z + 1 /\ d.depth >= 1
            /\ (d = [width |-> 0, height |-> 0, depth |-> 0])
                    <=> (actual_block_commands = <<>>)

C7_Witness ==
    /\ Measured
    /\ Len(generated_components) = 2
    /\ actual_block_commands = <<>>
    /\ spatial_metadata.dimensions = [width |-> 0, height |-> 0, depth |-> 0]

(***************************************************************************)
(* Properties of the composer and the executor (checked under SpecCompose).*)
(***************************************************************************)
Composed == epc \in {"execute_build", "nothing_to_build", "placing", "done", "failed"}

IntegerBase == \A k \in 1..3 : base[k] % 2 = 0

\* the blocks of plan entry n that the composer reads (none for a missing
\* or empty component file)
PlanBlocks(n) ==
    LET file == build_dir[final_plan_file.data[n].file_name]
    IN  IF file.kind = "with_blocks" THEN file.data ELSE <<>>

PlanOffset(n, axis) ==
    LET e == final_plan_file.data[n]
    IN  IF "offset" \in DOMAIN e /\ axis \in DOMAIN e.offset THEN e.offset[axis] ELSE 0

RECURSIVE PlanStart(_)
\* the number of blocks of the plan entries before entry n
PlanStart(n) == IF n = 1 THEN 0 ELSE PlanStart(n - 1) + Len(PlanBlocks(n - 1))

\* C8: with an integer world base the final block list is the concatenation,
\* in plan order, of every component's blocks in their own order, each moved
\* by world base + component offset with its block_type kept; its length is
\* the sum of the component lengths.
C8_ComposeTranslation ==
    (Composed /\ IntegerBase)
    => LET plan == final_plan_file.data
       IN  /\ Len(final_block_list) = PlanStart(Len(plan) + 1)
           /\ \A n \in DOMAIN plan : \A q \in DOMAIN PlanBlocks(n) :
                LET b == PlanBlocks(n)[q]
                    f == final_block_list[PlanStart(n) + q]
                IN  /\ f.x = (base[1] \div 2) + PlanOffset(n, "x") + b.x
                    /\ f.y = (base[2] \div 2) + PlanOffset(n, "y") + b.y
                    /\ f.z = (base[3] \div 2) + PlanOffset(n, "z") + b.z
                    /\ f.block_type = b.block_type

C8_Witness ==
    /\ Composed /\ IntegerBase
    /\ Len(final_plan_file.data) = 2
    /\ final_plan_file.data[1] = [file_name |-> "b.json", offset |-> [y |-> 2]]
    /\ final_plan_file.data[2] =
            [file_name |-> "a.json", offset |-> [x |-> -1, y |-> 2, z |-> 3]]
    /\ final_block_list =
            <<Block(0, 68, -3, "oak_planks"), Block(0, 68, -3, "glass"),
              Block(0, 66, 0, "glass"), Block(-1, 66, 0, "glass")>>

SameCoord(b1, b2) == b1.x = b2.x /\ b1.y = b2.y /\ b1.z = b2.z

\* C9: when entries of two components meet at one final coordinate with
\* different types, both stay in the composed list in plan order, and once
\* execute_build has applied the whole list the world holds, at every
\* coordinate, the type of the last entry written there.
C9_LastWriteWins ==
    /\ Composed =>
        \A n1, n2 \in DOMAIN final_plan_file.data :
          \A q1 \in DOMAIN PlanBlocks(n1), q2 \in DOMAIN PlanBlocks(n2) :
            LET f1 == final_block_list[PlanStart(n1) + q1]
                f2 == final_block_list[PlanStart(n2) + q2]
            IN  (n1 < n2 /\ SameCoord(f1, f2))
                => /\ PlanStart(n1) + q1 < PlanStart(n2) + q2
                   /\ f1.block_type = PlanBlocks(n1)[q1].block_type
                   /\ f2.block_type = PlanBlocks(n2)[q2].block_type
    /\ epc = "done" =>
        /\ \A n \in DOMAIN final_block_list :
            (\A m \in DOMAIN final_block_list :
                m > n => ~SameCoord(final_block_list[m], final_block_list[n]))
            => LET f == final_block_list[n]
               IN  <<<<f.x, f.y, f.z>>, f.block_type>> \in world
        /\ \A p1, p2 \in world : p1[1] = p2[1] => p1 = p2

C9_Witness ==
    /\ epc = "done"
    /\ Len(final_plan_file.data) = 2
    /\ final_plan_file.data[1].file_name # final_plan_file.data[2].file_name
    /\ \E m \in 1..Len(PlanBlocks(1)) :
        \E n \in (Len(PlanBlocks(1)) + 1)..Len(final_block_list) :
            /\ SameCoord(final_block_list[m], final_block_list[n])
            /\ final_block_list[m].block_type = "stone"
            /\ final_block_list[n].block_type = "glass"
            /\ <<<<final_block_list[n].x, final_block_list[n].y,
                   final_block_list[n].z>>, "glass">> \in world

(***************************************************************************)
(* Determinism and independence of evaluations (checked under SpecEval).   *)
(***************************************************************************)
\* the result of the evaluation when nothing else runs
Alone(job) ==
    IF job.kind = "compose" THEN compose(job.plan, 1, job.dir, job.world_base)
    ELSE generate_blocks_from_task(job.task)

EvalResults ==
    /\ \A e \in Evaluations :
        frames[e].pc = "returned" => frames[e].blocks = Alone(ejobs[e])
    /\ \A e1, e2 \in Evaluations :
        (frames[e1].pc = "returned" /\ frames[e2].pc = "returned"
            /\ ejobs[e1] = ejobs[e2])
        => frames[e1].blocks = frames[e2].blocks

\* C10: two evaluations of the same shape task, or of the same build plan,
\* return identical block sequences; whatever the interleaving of their
\* loop iterations, each evaluation returns what it returns when run alone;
\* and no step changes a task's args mapping or a build plan.
C10_Deterministic == [](EvalResults) /\ [][ejobs' = ejobs]_vars

C10_Witness ==
    /\ ejobs[1] = ejobs[2]
    /\ ejobs[1].kind = "rasterize"
    /\ frames[1].pc = "returned"
    /\ frames[2].pc = "loop" /\ frames[2].n > 0 /\ frames[2].n < 27
    /\ Len(frames[1].blocks) = 7
    /\ Len(frames[2].blocks) > 0

(***************************************************************************)
(* Properties of the dispatcher (checked under SpecRaster).                *)
(***************************************************************************)
Malformed(tsk) ==
    ~isinstance_dict(tsk) \/ Get(tsk, "tool", None) \notin ToolNames

\* C11: generate_blocks_from_task returns for every task and never raises;
\* a task that is not a dict, has no tool or names an unknown tool gives the
\* empty sequence.  (Violated: args that is not a mapping, and args naming
\* the parameter an alias binds, raise TypeError.)
C11_RasterizeNeverFails ==
    /\ rpc # "raised"
    /\ (rpc = "done" /\ Malformed(task)) => blocks = <<>>

\* the parameters of each tool that have a documented default
Params(tool_name) ==
    CASE tool_name = "cube" ->
            {"x", "y", "z", "size_x", "size_y", "size_z", "hollow", "block_type"}
      [] tool_name = "hollow_cube" ->
            {"x", "y", "z", "size_x", "size_y", "size_z", "block_type"}
      [] tool_name = "single_block" -> {"x", "y", "z"}
      [] tool_name \in {"sphere", "circle"} -> {"x", "y", "z", "radius", "hollow"}
      [] tool_name = "hollow_sphere" -> {"x", "y", "z", "radius"}
      [] tool_name = "cylinder" -> {"x", "y", "z", "radius", "height", "hollow"}
      [] tool_name = "pyramid" -> {"x", "y", "z", "base_size"}
      [] tool_name = "arch" -> {"x", "y", "z", "radius", "width"}
      [] tool_name = "line" -> {"x1", "y1", "z1", "x2", "y2", "z2"}

\* args with every omitted parameter of the tool set to its documented default
Filled(tool_name, args) ==
    [k \in DOMAIN args \cup Params(tool_name) |->
        IF k \in DOMAIN args THEN args[k] ELSE Documented[k]]

Omits == Params(Get(task, "tool", None)) \ DOMAIN Args

WellFormed ==
    /\ isinstance_dict(task) /\ isinstance_dict(Args)
    /\ Get(task, "tool", None) \in ToolNames
    /\ prebound(Get(task, "tool", None)) \cap DOMAIN Args = {}

Between(v, lo, hi) == lo <= v /\ v <= hi

Min2(a, b) == IF a <= b THEN a ELSE b

\* C13: every block a rasterizer emits lies in the box its parameters
\* imply: cube x..x+size_x-1 (likewise y, z); sphere within radius of the
\* centre on each axis; circle x,z within radius and y as given; cylinder
\* x,z within radius and y in y..y+height-1; pyramid x,z in
\* x..x+base_size-1 and y in y..y+(base_size+1) div 2 - 1; arch x within
\* radius, y in y..y+radius, z in z..z+width-1; line between the endpoints
\* on each axis.
C13_ExtentInvariant ==
    \A n \in DOMAIN blocks :
        LET b == blocks[n] IN
        /\ Called({"cube", "hollow_cube", "single_block"}) =>
            /\ Between(b.x, P("x"), P("x") + P("size_x") - 1)
            /\ Between(b.y, P("y"), P("y") + P("size_y") - 1)
            /\ Between(b.z, P("z"), P("z") + P("size_z") - 1)
        /\ Called({"sphere", "hollow_sphere"}) =>
            /\ Between(b.x, P("x") - P("radius"), P("x") + P("radius"))
            /\ Between(b.y, P("y") - P("radius"), P("y") + P("radius"))
            /\ Between(b.z, P("z") - P("radius"), P("z") + P("radius"))
        /\ Called({"circle"}) =>
            /\ Between(b.x, P("x") - P("radius"), P("x") + P("radius"))
            /\ b.y = P("y")
            /\ Between(b.z, P("z") - P("radius"), P("z") + P("radius"))
        /\ Called({"cylinder"}) =>
            /\ Between(b.x, P("x") - P("radius"), P("x") + P("radius"))
            /\ Between(b.y, P("y"), P("y") + P("height") - 1)
            /\ Between(b.z, P("z") - P("radius"), P("z") + P("radius"))
        /\ Called({"pyramid"}) =>
            /\ Between(b.x, P("x"), P("x") + P("base_size") - 1)
            /\ Between(b.y, P("y"), P("y") + ((P("base_size") + 1) \div 2) - 1)
            /\ Between(b.z, P("z"), P("z") + P("base_size") - 1)
        /\ Called({"arch"}) =>
            /\ Between(b.x, P("x") - P("radius"), P("x") + P("radius"))
            /\ Between(b.y, P("y"), P("y") + P("radius"))
            /\ Between(b.z, P("z"), P("z") + P("width") - 1)
        /\ Called({"line"}) =>
            /\ Between(b.x, Min2(P("x1"), P("x2")), Max2(P("x1"), P("x2")))
            /\ Between(b.y, Min2(P("y1"), P("y2")), Max2(P("y1"), P("y2")))
            /\ Between(b.z, Min2(P("z1"), P("z2")), Max2(P("z1"), P("z2")))

C13_Witness ==
    /\ Called({"cylinder"})
    /\ P("radius") = 2 /\ P("height") = 3 /\ P("hollow")
    /\ \E n \in DOMAIN blocks :
        blocks[n].x = P("x") - 2 /\ blocks[n].y = P("y") + 2
    /\ \E n \in DOMAIN blocks : blocks[n].z = P("z") + 2

(***************************************************************************)
(* The line (checked under SpecRaster).                                    *)
(***************************************************************************)
Steps ==
    Max2(Abs(P("x2") - P("x1")),
         Max2(Abs(P("y2") - P("y1")), Abs(P("z2") - P("z1"))))

At(n) == <<blocks[n].x, blocks[n].y, blocks[n].z>>

\* C14: with steps = max(|dx|,|dy|,|dz|) a line is exactly steps+1 blocks,
\* the first at (x1,y1,z1) and the last at (x2,y2,z2); with steps = 0 it is
\* the one block at the start point; (0,0,0)->(4,0,0) gives (0,0,0),
\* (1,0,0), ..., (4,0,0) in that order.
C14_LineEndpoints ==
    Called({"line"})
    => /\ Len(blocks) = Steps + 1
       /\ At(1) = <<P("x1"), P("y1"), P("z1")>>
       /\ At(Len(blocks)) = <<P("x2"), P("y2"), P("z2")>>
       /\ Steps = 0 => Len(blocks) = 1
       /\ (At(1) = <<0, 0, 0>> /\ <<P("x2"), P("y2"), P("z2")>> = <<4, 0, 0>>)
            => [n \in DOMAIN blocks |-> At(n)]
                 = <<<<0, 0, 0>>, <<1, 0, 0>>, <<2, 0, 0>>, <<3, 0, 0>>,
                     <<4, 0, 0>>>>

C14_Witness ==
    /\ Called({"line"})
    /\ <<P("x1"), P("y1"), P("z1")>> = <<1, -2, 3>>
    /\ <<P("x2"), P("y2"), P("z2")>> = <<-4, 1, 3>>
    /\ Len(blocks) = 6
    /\ At(6) = <<-4, 1, 3>>

(***************************************************************************)
(* Degenerate parameters (checked under SpecRaster).                       *)
(***************************************************************************)
Tool == Get(task, "tool", None)

Degenerate ==
    \/ Tool \in {"cube", "hollow_cube"}
        /\ (P("size_x") <= 0 \/ P("size_y") <= 0 \/ P("size_z") <= 0)
    \/ Tool \in {"sphere", "hollow_sphere", "circle"} /\ P("radius") <= 0
    \/ Tool = "cylinder" /\ (P("radius") <= 0 \/ P("height") <= 0)
    \/ Tool = "pyramid" /\ P("base_size") <= 0
    \/ Tool = "arch" /\ (P("radius") <= 0 \/ P("width") <= 0)
    \/ Tool = "line" /\ Steps = 0

NonPositiveSize ==
    \/ Tool \in {"cube", "hollow_cube"}
        /\ (P("size_x") <= 0 \/ P("size_y") <= 0 \/ P("size_z") <= 0)
    \/ Tool = "cylinder" /\ P("height") <= 0
    \/ Tool = "pyramid" /\ P("base_size") <= 0
    \/ Tool = "arch" /\ P("width") <= 0

NegativeRadius ==
    /\ Tool \in {"sphere", "hollow_sphere", "circle", "cylinder", "arch"}
    /\ P("radius") < 0

\* the cases of the claim that name their result
DegenerateResults ==
    /\ (Tool \in {"sphere", "circle"} /\ ~P("hollow") /\ P("radius") = 0)
        => (Len(blocks) = 1 /\ At(1) = <<P("x"), P("y"), P("z")>>)
    /\ NegativeRadius => blocks = <<>>
    /\ NonPositiveSize => blocks = <<>>
    /\ (Tool = "line" /\ Steps = 0)
        => (Len(blocks) = 1 /\ At(1) = <<P("x1"), P("y1"), P("z1")>>)

\* a solid cylinder of radius 0: one block per layer
Column ==
    /\ Tool = "cylinder" /\ ~P("hollow")
    /\ P("radius") = 0 /\ P("height") >= 1

\* C15 as claimed: every rasterizer called with a zero or negative size,
\* radius, height, width or base_size, or with coincident line endpoints,
\* returns without error the empty sequence or a single block.
C15_Degenerate_Original ==
    (rpc # "ready" /\ WellFormed /\ Degenerate)
    => /\ rpc = "done"
       /\ Len(blocks) <= 1
       /\ DegenerateResults

\* C15: every rasterizer called with a zero or negative size, radius,
\* height, width or base_size, or with coincident line endpoints, returns
\* without error; the
\* result is empty or a single block, except that a solid cylinder of
\* radius 0 is the column of its `height` blocks (x, y+j, z); a solid
\* sphere or circle of radius 0 is the centre block, a negative radius or a
\* non-positive size, height, width or base_size gives the empty sequence,
\* and a zero-length line gives its start block.
C15_Degenerate ==
    (rpc # "ready" /\ WellFormed /\ Degenerate)
    => /\ rpc = "done"
       /\ ~Column => Len(blocks) <= 1
       /\ Column =>
            [n \in DOMAIN blocks |-> At(n)]
                = [j \in 1..P("height") |-> <<P("x"), P("y") + j - 1, P("z")>>]
       /\ DegenerateResults

C15_Witness ==
    /\ Called({"sphere"}) /\ ~P("hollow") /\ P("radius") = 0
    /\ blocks = <<Block(P("x"), P("y"), P("z"), P("block_type"))>>

(***************************************************************************)
(* The aliases of the dispatcher (checked under SpecRaster).               *)
(***************************************************************************)
AliasResults ==
    /\ Tool = "hollow_cube" => blocks = generate_cube(TRUE, Without(Args, "hollow"))
    /\ Tool = "hollow_sphere"
        => blocks = generate_sphere(TRUE, Without(Args, "hollow"))
    /\ Tool = "single_block"
        => /\ blocks = <<Block(P("x"), P("y"), P("z"), P("block_type"))>>
           /\ blocks = generate_cube(FALSE,
                         With(With(With(Args, "size_x", 1), "size_y", 1),
                              "size_z", 1))
    /\ Tool \notin ToolNames => blocks = <<>>

\* C16: for every args mapping, tool hollow_cube gives the sequence of the
\* cube rasterizer with hollow = true, hollow_sphere that of the sphere
\* rasterizer with hollow = true, and single_block that of the cube
\* rasterizer with all sizes 1: the one block (x,y,z) of the given type;
\* a tool name in another case ("Cube") is unknown.  (Violated: args that
\* name the pre-bound parameter make the alias raise TypeError.)
C16_AliasResolution ==
    (rpc # "ready" /\ isinstance_dict(task) /\ isinstance_dict(Args))
    => (rpc = "done" /\ AliasResults)

(***************************************************************************)
(* Degraded inputs of the composer (checked under SpecCompose).            *)
(***************************************************************************)
NothingToPlace ==
    not_plan(final_plan_file)
    \/ \A n \in DOMAIN final_plan_file.data : PlanBlocks(n) = <<>>

NoSetblock == \A i \in DOMAIN sent : sent[i][1] # "setblock"

Skipped(n) ==
    build_dir[final_plan_file.data[n].file_name].kind \in {"missing", "empty_dict"}

\* C17: an empty plan, or a plan whose components have no blocks, gives an
\* empty final list and no setblock command; a component whose file is
\* missing or empty is skipped and the blocks of every other component are
\* in the final list in plan order; a missing offset, or a missing axis of
\* an offset, counts as 0.
C17_ComposeDegrades ==
    /\ NothingToPlace
        => /\ final_block_list = <<>>
           /\ NoSetblock /\ world = {}
           /\ epc \in {"ready", "no_plan", "no_position", "execute_build",
                       "nothing_to_build"}
    /\ Composed
        => LET plan == final_plan_file.data
           IN  /\ Len(final_block_list) = PlanStart(Len(plan) + 1)
               /\ \A n \in DOMAIN plan :
                    /\ Skipped(n) => PlanStart(n + 1) = PlanStart(n)
                    /\ \A q \in DOMAIN PlanBlocks(n) :
                        LET b == PlanBlocks(n)[q]
                        IN  final_block_list[PlanStart(n) + q] =
                              Block(int(base[1] + 2 * (PlanOffset(n, "x") + b.x)),
                                    int(base[2] + 2 * (PlanOffset(n, "y") + b.y)),
                                    int(base[3] + 2 * (PlanOffset(n, "z") + b.z)),
                                    b.block_type)

C17_Witness ==
    /\ epc = "done"
    /\ final_plan_file.data =
            <<[file_name |-> "a.json", offset |-> [x |-> 1, y |-> 0, z |-> 0]],
              [file_name |-> "b.json", offset |-> [y |-> 2]]>>
    /\ build_dir["a.json"] = NoFile
    /\ base = <<-5, 129, 7>>
    /\ final_block_list = <<Block(-2, 66, 3, "stone"), Block(-1, 66, 3, "stone")>>
    /\ Cardinality(world) = 2

(***************************************************************************)
(* The hollow round shapes (checked under SpecRaster).                     *)
(***************************************************************************)
IsHollowCall(tool_name) ==
    Called({tool_name}) /\ P("hollow")

\* the args of the call without the flag, and with radius r
Kw(r) == With(Without(Args, "hollow"), "radius", r)

Lattice(r) == (-r)..r

Band(d, r) == (r - 1) * (r - 1) < d /\ d <= r * r

\* S is the disjoint union of A and B
DisjointUnion(S, A, B) == S = A \cup B /\ A \cap B = {}

\* C18: a hollow sphere of radius r is exactly the offsets with
\* (r-1)^2 < i*i+j*j+k*k <= r^2; for r >= 1 it is not empty, and the solid
\* sphere of radius r is the disjoint union of it and the solid sphere of
\* radius r-1.  Likewise the circle in the x,z plane and the cylinder, layer
\* by layer.
C18_HollowShellBand ==
    LET r == P("radius") IN
    /\ (Called({"hollow_sphere"}) \/ IsHollowCall("sphere")) =>
        /\ Offsets(blocks, Centre)
            = {o \in Lattice(r) \X Lattice(r) \X Lattice(r) :
                Band(o[1] * o[1] + o[2] * o[2] + o[3] * o[3], r)}
        /\ NoDuplicates(blocks)
        /\ r >= 1 =>
            /\ blocks # <<>>
            /\ DisjointUnion(Coords(generate_sphere(FALSE, Kw(r))),
                             Coords(blocks),
                             Coords(generate_sphere(FALSE, Kw(r - 1))))
    /\ IsHollowCall("circle") =>
        /\ Offsets(blocks, Centre)
            = {<<o[1], 0, o[2]>> : o \in
                {o \in Lattice(r) \X Lattice(r) :
                    Band(o[1] * o[1] + o[2] * o[2], r)}}
        /\ NoDuplicates(blocks)
        /\ r >= 1 =>
            /\ blocks # <<>>
            /\ DisjointUnion(Coords(generate_circle(FALSE, Kw(r))),
                             Coords(blocks),
                             Coords(generate_circle(FALSE, Kw(r - 1))))
    /\ IsHollowCall("cylinder") =>
        /\ Offsets(blocks, Centre)
            = {<<o[1], j, o[2]>> : j \in 0..(P("height") - 1), o \in
                {o \in Lattice(r) \X Lattice(r) :
                    Band(o[1] * o[1] + o[2] * o[2], r)}}
        /\ NoDuplicates(blocks)
        /\ (r >= 1 /\ P("height") >= 1) =>
            /\ blocks # <<>>
            /\ DisjointUnion(Coords(generate_cylinder(FALSE, Kw(r))),
                             Coords(blocks),
                             Coords(generate_cylinder(FALSE, Kw(r - 1))))

C18_Witness ==
    /\ Called({"hollow_sphere"})
    /\ P("radius") = 2
    /\ Len(blocks) = 26
    /\ Len(generate_sphere(FALSE, Kw(2))) = 33
    /\ Len(generate_sphere(FALSE, Kw(1))) = 7

(***************************************************************************)
(* The cylinder as a stack of circles (checked under SpecRaster).          *)
(***************************************************************************)
\* the circle of layer j: same radius, flag and type, at (x, y+j, z)
LayerCircle(j) ==
    generate_circle(P("hollow"),
                    With(Without(Args, "hollow"), "y", P("y") + j))

\* the circles of layers 0..height-1 one after the other (all of one length)
StackedCircles ==
    LET layers == IF P("height") > 0 THEN P("height") ELSE 0
        circles == [j \in 0..(layers - 1) |-> LayerCircle(j)]
        per == IF layers = 0 THEN 0 ELSE Len(circles[0])
    IN  [n \in 1..(per * layers) |->
            circles[(n - 1) \div per][((n - 1) % per) + 1]]

\* C19: the block sequence of a cylinder is the concatenation, for
\* j = 0, 1, ..., height-1 in that order, of the block sequences of the
\* circle at (x, y+j, z) with the same radius, hollow flag and block_type.
C19_CylinderStack == Called({"cylinder"}) => blocks = StackedCircles

C19_Witness ==
    /\ Called({"cylinder"})
    /\ P("radius") = 1 /\ P("height") = 2 /\ ~P("hollow")
    /\ Len(blocks) = 10
    /\ Len(LayerCircle(1)) = 5
    /\ blocks[6] = Block(P("x") - 1, P("y") + 1, P("z"), P("block_type"))

(***************************************************************************)
(* The layers of the pyramid (checked under SpecRaster).                   *)
(***************************************************************************)
\* the coordinates of the blocks emitted at height y+j
LayerCoords(j) ==
    {At(n) : n \in {m \in DOMAIN blocks : blocks[m].y = P("y") + j}}

Square(j, lo, hi) ==
    {<<P("x") + i, P("y") + j, P("z") + k>> : i \in lo..hi, k \in lo..hi}

RECURSIVE SumOfSquares(_, _)
\* (base-2j)^2 + (base-2(j+1))^2 + ... over the layers from j on
SumOfSquares(base_size, j) ==
    IF j >= (base_size + 1) \div 2 THEN 0
    ELSE (base_size - 2 * j) * (base_size - 2 * j)
            + SumOfSquares(base_size, j + 1)

\* C20: for base_size >= 1 and each j below (base_size+1) div 2, layer j is
\* exactly the solid square of side base_size-2j at x,z offsets
\* j..base_size-1-j and height y+j, inside the layer below shrunk by one
\* block on every side; the block count is the sum of (base_size-2j)^2;
\* every layer has side >= 1, so the exit on layer_size <= 0 is not taken.
C20_PyramidLayering ==
    (Called({"pyramid"}) /\ P("base_size") >= 1)
    => LET base_size == P("base_size")
           layers == 0..(((base_size + 1) \div 2) - 1)
       IN  /\ \A j \in layers :
                /\ LayerCoords(j) = Square(j, j, base_size - 1 - j)
                /\ Cardinality(LayerCoords(j))
                    = (base_size - 2 * j) * (base_size - 2 * j)
                /\ j >= 1 =>
                    {<<c[1], c[3]>> : c \in LayerCoords(j)}
                    = {<<c[1], c[3]>> : c \in
                        {d \in LayerCoords(j - 1) :
                            /\ d[1] - P("x") \in j..(base_size - 1 - j)
                            /\ d[3] - P("z") \in j..(base_size - 1 - j)}}
           /\ \A n \in DOMAIN blocks : blocks[n].y - P("y") \in layers
           /\ Len(blocks) = SumOfSquares(base_size, 0)
           /\ NoDuplicates(blocks)
           /\ py_height(base_size) = ((base_size + 1) \div 2)
           /\ \A j \in layers : py_layer_size(base_size, j) >= 1

C20_Witness ==
    /\ Called({"pyramid"})
    /\ P("base_size") = 4
    /\ Len(blocks) = 20
    /\ blocks[17] = Block(P("x") + 1, P("y") + 1, P("z") + 1, P("block_type"))
    /\ Cardinality(LayerCoords(1)) = 4

(***************************************************************************)
(* The arch (checked under SpecRaster).                                    *)
(***************************************************************************)
\* the offsets (i, j) emitted in slice k
Slice(k) ==
    {<<o[1], o[2]>> : o \in {q \in Offsets(blocks, Centre) : q[3] = k}}

\* lattice offsets with j >= 0, two beyond the loop bounds on every side
Window ==
    LET m == Abs(P("radius")) + 2 IN ((-m)..m) \X (0..m)

HalfVoxel(o) ==
    LET r == P("radius")
        d4 == 4 * (o[1] * o[1] + o[2] * o[2])
    IN  (2 * r - 1) * (2 * r - 1) < d4 /\ d4 < (2 * r + 1) * (2 * r + 1)

HalfVoxelOpen(o) ==
    LET r == P("radius")
        d4 == 4 * (o[1] * o[1] + o[2] * o[2])
    IN  (2 * r - 1) * (2 * r - 1) < d4 /\ d4 < (2 * r + 1) * (2 * r + 1) - 1

SlicesAlike ==
    /\ \A k \in 0..(P("width") - 1) :
        /\ Slice(k) = Slice(0)
        /\ \A o \in Slice(k) : <<-o[1], o[2]>> \in Slice(k)
    /\ \A n \in DOMAIN blocks : blocks[n].z - P("z") \in 0..(P("width") - 1)
    /\ NoDuplicates(blocks)

\* C21 as claimed: in every slice an offset (i,j), j >= 0, is emitted iff
\* |i*i+j*j - r*r| < r, and that is the same as
\* (2r-1)^2 < 4(i*i+j*j) < (2r+1)^2.
C21_ArchBand_Original ==
    Called({"arch"})
    => /\ \A k \in 0..(P("width") - 1) : \A o \in Window :
            /\ o \in Slice(k)
                <=> Abs(o[1] * o[1] + o[2] * o[2] - P("radius") * P("radius"))
                        < P("radius")
            /\ o \in Slice(k) <=> HalfVoxel(o)
       /\ SlicesAlike

\* C21: in every slice k of [0,width) an offset (i,j), j >= 0, is emitted
\* iff |i*i+j*j - r*r| < r, which is the same as
\* (2r-1)^2 < 4(i*i+j*j) < (2r+1)^2 - 1 (the offsets with i*i+j*j = r*r+r
\* are left out); the loop bounds cut off no offset that passes the test,
\* all slices are the same and each is mirror-symmetric in i.
C21_ArchBand ==
    Called({"arch"})
    => /\ \A k \in 0..(P("width") - 1) : \A o \in Window :
            /\ o \in Slice(k)
                <=> Abs(o[1] * o[1] + o[2] * o[2] - P("radius") * P("radius"))
                        < P("radius")
            /\ o \in Slice(k) <=> HalfVoxelOpen(o)
       /\ \A k \in 0..(P("width") - 1) : Slice(k) \subseteq Window
       /\ SlicesAlike

C21_Witness ==
    /\ Called({"arch"})
    /\ P("radius") = 2 /\ P("width") = 2
    /\ Len(blocks) = 14
    /\ Slice(1) = {<<-2, 0>>, <<2, 0>>, <<0, 2>>, <<-1, 2>>, <<1, 2>>,
                   <<-2, 1>>, <<2, 1>>}

(***************************************************************************)
(* Translation and connectivity of the line (checked under SpecRaster).    *)
(***************************************************************************)
Shifts == {-1, 0, 1} \X {-1, 0, 1} \X {-1, 0, 1}

\* the line task with both endpoints moved by v
ShiftedLine(v) ==
    [x1 |-> P("x1") + v[1], y1 |-> P("y1") + v[2], z1 |-> P("z1") + v[3],
     x2 |-> P("x2") + v[1], y2 |-> P("y2") + v[2], z2 |-> P("z2") + v[3],
     block_type |-> P("block_type")]

\* C22: the line from start+v to end+v is the line from start to end with
\* every block moved by v, in the same order, for every integer shift v.
\* (Violated: round() sends a sample halfway between two integers to the
\* even one, so the choice depends on the absolute position.)
C22_LineTranslation ==
    Called({"line"})
    => \A v \in Shifts :
        generate_line(ShiftedLine(v))
            = [n \in DOMAIN blocks |->
                Block(blocks[n].x + v[1], blocks[n].y + v[2],
                      blocks[n].z + v[3], blocks[n].block_type)]

\* the move from block n to block n+1 along one axis
Move(n, axis) == Axis(blocks[n + 1], axis) - Axis(blocks[n], axis)

Delta(axis) ==
    CASE axis = "x" -> P("x2") - P("x1")
      [] axis = "y" -> P("y2") - P("y1")
      [] axis = "z" -> P("z2") - P("z1")

\* C23: for a line with steps >= 1, two consecutive blocks differ by
\* exactly 1 along every axis where |delta| = steps and by at most 1 along
\* the others; the steps+1 coordinates are pairwise distinct and lead from
\* the start point to the end point.
C23_LineConnectivity ==
    (Called({"line"}) /\ Steps >= 1)
    => /\ \A n \in 1..(Len(blocks) - 1) : \A axis \in {"x", "y", "z"} :
            /\ Abs(Move(n, axis)) <= 1
            /\ Abs(Delta(axis)) = Steps
                => Move(n, axis) = (IF Delta(axis) > 0 THEN 1 ELSE -1)
       /\ NoDuplicates(blocks)
       /\ Len(blocks) = Steps + 1
       /\ At(1) = <<P("x1"), P("y1"), P("z1")>>
       /\ At(Len(blocks)) = <<P("x2"), P("y2"), P("z2")>>

C23_Witness ==
    /\ Called({"line"})
    /\ <<P("x2"), P("y2"), P("z2")>> = <<4, 2, 1>>
    /\ Len(blocks) = 5
    /\ At(1) = <<0, 0, 0>>
    /\ At(2) = <<1, 0, 0>>
    /\ At(3) = <<2, 1, 0>>
    /\ At(4) = <<3, 2, 1>>

(***************************************************************************)
(* Composition at fractional and negative positions (under SpecCompose).   *)
(***************************************************************************)
\* C24: for every base position and every component, the difference between
\* the final coordinates of two blocks of the component is the difference of
\* their original coordinates, so distinct component coordinates never
\* collapse onto one final coordinate.
C24_RigidTranslation ==
    Composed
    => \A n \in DOMAIN final_plan_file.data :
        \A q1, q2 \in DOMAIN PlanBlocks(n) :
            LET b1 == PlanBlocks(n)[q1]
                b2 == PlanBlocks(n)[q2]
                f1 == final_block_list[PlanStart(n) + q1]
                f2 == final_block_list[PlanStart(n) + q2]
            IN  /\ f1.x - f2.x = b1.x - b2.x
                /\ f1.y - f2.y = b1.y - b2.y
                /\ f1.z - f2.z = b1.z - b2.z
                /\ ~SameCoord(b1, b2) => ~SameCoord(f1, f2)

(***************************************************************************)
(* The request queue and the build pipeline (checked under SpecPlanner).   *)
(***************************************************************************)
\* the listener has queued every message and main_loop found the queue empty
Quiescent ==
    /\ arrived = MaxRequests
    /\ lpc = "follow"
    /\ ppc = "loop"
    /\ queue_file = <<>>

\* C25: under every interleaving of the listener's and the planner's reads
\* and writes of command_queue.json, each request the listener appended is
\* taken by the planner exactly once, in arrival order: none is taken twice
\* without having been re-queued, none is taken before an earlier one, and
\* once the queue has drained none is left untaken.
C25_QueueExactlyOnce ==
    /\ ~duplicated
    /\ \A m, n \in DOMAIN taken : m < n => taken[m] < taken[n]
    /\ Quiescent => \A n \in Prompts : status[n] = "finished"

PipelineTrail ==
    <<"cleared", "run_existing_generators", "generators_ok", "supervisor_wrote">>

Aborting ==
    /\ ppc \in {"route_request", "create_new_generator", "run_generators",
                "run_supervisor", "execute_final_plan"}
    /\ ppc' = "loop"

\* C26: setblock commands are issued for a request only after, in this
\* order and in the same iteration, the build directory and the previous
\* final plan were cleared, the router chose run_existing_generators with
\* sub-tasks, the generators succeeded and the supervisor succeeded and
\* wrote the plan; no plan or component file left over from an earlier
\* request is used; and an iteration that ends without a build leaves the
\* queue alone (the request is not retried).
C26_PipelineOrder ==
    /\ [](\A b \in builds :
            /\ b.placed => b.trail = PipelineTrail
            /\ b.plan = b.request
            /\ b.components \subseteq {b.request})
    /\ [][Aborting => queue_file' = queue_file]_vars

\* main_loop takes a request off the queue
Takes == ppc = "loop" /\ ppc' = "write_queue"

\* C27: after a successful design the request is re-inserted at the head of
\* the queue and is the next request the planner takes; after a failed
\* design it is dropped; and every queued request is eventually finished
\* (built or aborted) instead of being re-queued forever.
C27_Requeue ==
    /\ [][(ppc = "requeue_write" /\ ppc' = "loop")
            => queue_file' # <<>> /\ Head(queue_file') = request_data]_vars
    /\ [][(Takes /\ requeued # NoRequest) => request_data' = requeued]_vars
    /\ [][(ppc = "create_new_generator" /\ ppc' = "loop")
            => /\ queue_file' = queue_file
               /\ status'[request_data.prompt] = "finished"]_vars
    /\ \A n \in Prompts : (status[n] = "queued") ~> (status[n] = "finished")

(***************************************************************************)
(* The LLM retry loop (checked under SpecLlmFair).                         *)
(***************************************************************************)
Retried == {"api_error", "unexpected", "empty"}

\* the API calls before the last one
Earlier == {api_log[n] : n \in 1..(Len(api_log) - 1)}

LastCall == api_log[Len(api_log)]

\* C28: get_llm_response returns after at most 3 API calls: an API error,
\* an unexpected error or an empty response is retried, and after the third
\* such call the result is (False, message); text that is not JSON when
\* JSON is expected gives (False, message) at once; the first successful
\* call gives (True, result); and the call always returns.
C28_BoundedRetry ==
    /\ [](Len(api_log) <= 3)
    /\ [](llm_pc = "loop" => \A n \in DOMAIN api_log : api_log[n] \in Retried)
    /\ [](llm_pc = "returned" =>
            /\ Earlier \subseteq Retried
            /\ LastCall \in Retried
                => /\ Len(api_log) = 3
                   /\ llm_result = [success |-> FALSE, payload |-> "max_retries"]
            /\ (LastCall = "text" /\ expect_json)
                => llm_result = [success |-> FALSE, payload |-> "json_error"]
            /\ (LastCall \notin Retried /\ ~(LastCall = "text" /\ expect_json))
                => llm_result.success)
    /\ <>(llm_pc = "returned")

C28_Witness ==
    /\ llm_pc = "returned"
    /\ expect_json
    /\ api_log = <<"api_error", "empty", "fenced_json">>
    /\ llm_result.success

(***************************************************************************)
(* API key rotation (checked under SpecKeys).                              *)
(***************************************************************************)
HasKeys == ~is_None(api_keys) /\ api_keys.data # <<>>

KeyCount == Len(api_keys.data)

StoredIndex(file) ==
    IF ~is_None(file) /\ "last_used_index" \in DOMAIN file.data
    THEN file.data.last_used_index
    ELSE -1

Called_get_next_api_key ==
    returned_keys' # returned_keys \/ key_errors' # key_errors

\* C29: with n keys a call returns the key at index (last_used_index + 1)
\* mod n, index 0 when no state exists, and stores that index; the stored
\* index stays in 0..n-1; any n consecutive calls return every key exactly
\* once; with an empty or missing list the call raises and leaves the
\* stored state unchanged.
C29_RoundRobin ==
    /\ [][(Called_get_next_api_key /\ HasKeys) =>
            LET expected == (StoredIndex(key_state) + 1) % KeyCount
            IN  /\ returned_keys' = Append(returned_keys, api_keys.data[expected + 1])
                /\ StoredIndex(key_state') = expected
                /\ key_errors' = key_errors]_vars
    /\ []((HasKeys /\ is_None(key_state) /\ Len(returned_keys) = 1)
            => returned_keys[1] = api_keys.data[1])
    /\ []((HasKeys /\ returned_keys # <<>>)
            => StoredIndex(key_state) \in 0..(KeyCount - 1))
    /\ [](HasKeys =>
            \A first \in 1..(Len(returned_keys) - KeyCount + 1) :
                /\ {returned_keys[n] : n \in first..(first + KeyCount - 1)}
                        = {api_keys.data[k] : k \in 1..KeyCount}
                /\ \A m, n \in first..(first + KeyCount - 1) :
                        returned_keys[m] = returned_keys[n] => m = n)
    /\ [][(Called_get_next_api_key /\ ~HasKeys) =>
            /\ key_state' = key_state
            /\ returned_keys' = returned_keys
            /\ key_errors' = key_errors + 1]_vars

C29_Witness ==
    /\ HasKeys
    /\ KeyCount = 3
    /\ Len(returned_keys) = 4
    /\ returned_keys = <<ApiKey(3), ApiKey(1), ApiKey(2), ApiKey(3)>>
    /\ StoredIndex(key_state) = 2

(***************************************************************************)
(* The order of the executor's commands (checked under SpecBuild).         *)
(***************************************************************************)
\* where the k-th setblock stands in the commands sent: after the start
\* announcement, the k-1 setblocks before it and their progress messages
SetblockAt(k) == 1 + k + ((k - 1) \div 100)

Announced(kind) == {p \in DOMAIN sent : sent[p][1] = kind}

====
